---- MODULE Spec2Model ----
(***************************************************************************)
(* Model of the sag text-to-speech client: the tee/playback pipeline of   *)
(* cmd/speak.go (streamAndPlay, convertAndPlay and their MiniMax twins)    *)
(* and the voice resolution engine (resolveVoice, resolveMiniMaxVoice).   *)
(***************************************************************************)
EXTENDS Integers, Sequences, FiniteSets, TLC

(***************************************************************************)
(* Bounds of the model.                                                    *)
(***************************************************************************)
\* longest audio byte source
MaxSrcLen == 3
\* longest voice list a provider returns
MaxVoices == 2
\* longest short voice name
MaxNameLen == 2

\* values of the audio bytes
Byte == {1, 2}

VARIABLES
    \* ---- tee / playback pipeline ----
    opts,       \* speakOptions: [play, outputPath, stream]
    src,        \* the bytes the provider will produce
    mainPc,     \* position of streamAndPlay / convertAndPlay
    requests,   \* provider synthesis requests issued so far
    srcPos,     \* bytes of src already read by io.Copy
    buf,        \* chunk held by io.Copy between Read and Write
    written,    \* io.Copy's running count
    copyPc,     \* position of the copy loop / writer goroutine
    copyRes,    \* error the copy ended with
    chans,      \* TRUE once copyN and copyErr hold their values
    file,       \* contents of the output file
    pipeBuf,    \* bytes of the pipe Write in progress not yet read
    pipeWr,     \* a pipe Write is in progress
    pwClosed,   \* the pipe's write end is closed
    playPc,     \* position of playToSpeakers
    speaker,    \* bytes the playback consumer has read
    spkEOF,     \* the playback consumer has seen end-of-stream
    playRes,    \* error playToSpeakers returned
    retN,       \* byte count returned
    retErr,     \* error returned
    \* ---- voice resolution ----
    provider,   \* detectProvider(modelID)
    voices,     \* the provider's voice list
    voiceInput, \* the --voice / --voice-id argument
    forceID,    \* the literal-id flag
    resPc,      \* position of the resolution call
    voiceID,    \* id returned
    resErr,     \* error returned: [kind, input]
    notice,     \* stderr notice: [kind, name, id]
    table,      \* rows printed on stdout
    listCalls,  \* ListVoices requests issued
    listOK,     \* whether this call's ListVoices request succeeds
    \* ---- MiniMax event-stream decoder ----
    body,       \* lines readMiniMaxStream has read from the response body
    bodyEOF,    \* the last ReadString returned io.EOF
    decPc,      \* position of the decoder goroutine
    dataLines,  \* payloads of the "data:" lines of the event being read
    items,      \* items of the payload handleMiniMaxStreamPayload works on
    itemIdx,    \* index of the item in hand
    site,       \* the call of handleMiniMaxStreamPayload that is running
    streamDone, \* handleMiniMaxStreamPayload returned done = true
    decErr,     \* error readMiniMaxStream returned
    pend,       \* bytes of the pw.Write in progress not yet read
    pwState,    \* the pipe's write end: "open" or "closed"
    pwErr,      \* error the write end was closed with
    got,        \* bytes the consumer has read from the pipe
    conEnd,     \* how the consumer's stream ended: "none", "eof", an error
    ctxDone,    \* the request context is cancelled
    prClosed,   \* the consumer closed the read end
    bodyClosed, \* resp.Body is closed
    \* ---- voices command and voice metadata cache ----
    run,        \* which run of the voices command this is
    cmdPc,      \* position of the command's RunE and of hydrateVoices
    vopts,      \* the options that decide needsMeta
    clock,      \* the wall clock, in hours
    cacheFile,  \* the cache file on disk
    cacheErr,   \* voiceCachePath failed
    loadErr,    \* error of loadVoiceCache, "none" before the call
    saveErr,    \* error of saveVoiceCache, "none" before the call
    cache,      \* the voiceCache in memory
    cache0,     \* the cache hydrateVoices was called with
    list,       \* the voices the provider listed
    now,        \* hydrateVoices' now
    next,       \* index of the voice the dispatch loop is at
    results,    \* hydrateVoices' results
    metaCount,  \* hydrateVoices' metaCount
    workers,    \* the goroutine of each voice: none, fetch, store, done, failed
    warnings,   \* warnings written to stderr
    listing,    \* the table written to stdout
    cmdErr,     \* error RunE returned
    prev,       \* in the second run: the cache the first run saved, if any
    sync,       \* hydrateVoices: holder of mu (0: none), the counter values
                \* the holder and the loop have read, whether a lookup of
                \* the loop fell into a critical section, the number of
                \* map writes each goroutine has made
    \* ---- label filter and query ranking ----
    qOp,        \* "filter" or "rank": the function under evaluation
    qVoices,    \* the voice list it is given
    qFilters,   \* the parsed label filters
    qQuery,     \* the query
    qRuns,      \* one record [out, scores] per evaluation made so far
    \* ---- audio playback ----
    aDev,       \* audioCtx, audioSampleRate, audioContextErr; opens counts
                \* the oto.NewContext calls that succeeded
    aCalls,     \* the StreamToSpeakers calls of the process
    \* ---- speak command ----
    speakOpts,  \* the command line: flags set, their values, the text
    speakPc,    \* position of the command's RunE
    speakErr,   \* error RunE returned
    speakIO     \* reads of the text file or stdin and synthesis requests
                \* made so far

pipeVars == <<opts, src, mainPc, requests, srcPos, buf, written, copyPc,
              copyRes, chans, file, pipeBuf, pipeWr, pwClosed, playPc,
              speaker, spkEOF, playRes, retN, retErr>>

resVars == <<provider, voices, voiceInput, forceID, resPc, voiceID, resErr,
             notice, table, listCalls, listOK>>

decVars == <<body, bodyEOF, decPc, dataLines, items, itemIdx, site,
             streamDone, decErr, pend, pwState, pwErr, got, conEnd, ctxDone,
             prClosed, bodyClosed>>

cacheVars == <<run, cmdPc, vopts, clock, cacheFile, cacheErr, loadErr,
               saveErr, cache, cache0, list, now, next, results, metaCount,
               workers, warnings, listing, cmdErr, prev, sync>>

queryVars == <<qOp, qVoices, qFilters, qQuery, qRuns>>

audioVars == <<aDev, aCalls>>

speakVars == <<speakOpts, speakPc, speakErr, speakIO>>

vars == <<pipeVars, resVars, decVars, cacheVars, queryVars, audioVars,
          speakVars>>

\* what the pipeline's steps leave alone
PipeFrame ==
    UNCHANGED <<audioVars, resVars, decVars, cacheVars, queryVars, speakVars>>

\* what the resolution steps leave alone
ResFrame ==
    UNCHANGED <<audioVars, pipeVars, decVars, cacheVars, queryVars, speakVars>>

\* what the decoder's and its consumer's steps leave alone
DecFrame ==
    UNCHANGED <<audioVars, pipeVars, resVars, cacheVars, queryVars, speakVars>>

\* what the voices command's steps leave alone
CacheFrame ==
    UNCHANGED <<audioVars, pipeVars, resVars, decVars, queryVars, speakVars>>

\* what an evaluation of the filter or of the ranking leaves alone
QueryFrame ==
    UNCHANGED <<audioVars, pipeVars, resVars, decVars, cacheVars, speakVars>>

\* what the steps of StreamToSpeakers leave alone
AudioFrame ==
    UNCHANGED <<pipeVars, resVars, decVars, cacheVars, queryVars, speakVars>>

(***************************************************************************)
(* Sequences                                                               *)
(***************************************************************************)
SeqsUpTo(S, n) == UNION {[1..k -> S] : k \in 0..n}

Take(s, k) == SubSeq(s, 1, k)

Drop(s, k) == SubSeq(s, k + 1, Len(s))

(***************************************************************************)
(* Tee / playback pipeline: streamAndPlay and convertAndPlay.              *)
(* streamAndPlayMiniMax and convertAndPlayMiniMax are the same statements  *)
(* over the MiniMax client.                                                *)
(***************************************************************************)
Errors == {"nil", "transport", "create", "src", "file", "play", "nothing"}

PipeInit ==
    /\ opts \in [play : BOOLEAN, outputPath : {"", "out.mp3"}, stream : BOOLEAN]
    /\ src \in SeqsUpTo(Byte, MaxSrcLen)
    /\ mainPc = "start"
    /\ requests = 0
    /\ srcPos = 0
    /\ buf = <<>>
    /\ written = 0
    /\ copyPc = "idle"
    /\ copyRes = "nil"
    /\ chans = FALSE
    /\ file = <<>>
    /\ pipeBuf = <<>>
    /\ pipeWr = FALSE
    /\ pwClosed = FALSE
    /\ playPc = "idle"
    /\ speaker = <<>>
    /\ spkEOF = FALSE
    /\ playRes = "nil"
    /\ retN = 0
    /\ retErr = "nil"

\* return n, err
Return(n, e) ==
    /\ mainPc' = "returned"
    /\ retN' = n
    /\ retErr' = e

\* client.StreamTTS: the synthesis request of the streaming path
StreamTTS ==
    /\ mainPc = "start"
    /\ opts.stream
    /\ requests' = requests + 1
    /\ \E ok \in BOOLEAN :
          IF ok THEN mainPc' = "open" /\ UNCHANGED <<retN, retErr>>
                ELSE Return(0, "transport")
    /\ UNCHANGED <<opts, src, srcPos, buf, written, copyPc, copyRes, chans,
                   file, pipeBuf, pipeWr, pwClosed, playPc, speaker, spkEOF,
                   playRes>>
    /\ PipeFrame

\* os.MkdirAll and os.Create of the output file
OpenOutput ==
    /\ mainPc = "open"
    /\ IF opts.outputPath # ""
          THEN \E ok \in BOOLEAN :
                  IF ok THEN mainPc' = "branch" /\ UNCHANGED <<retN, retErr>>
                        ELSE Return(0, "create")
          ELSE mainPc' = "branch" /\ UNCHANGED <<retN, retErr>>
    /\ file' = <<>>
    /\ UNCHANGED <<opts, src, requests, srcPos, buf, written, copyPc, copyRes,
                   chans, pipeBuf, pipeWr, pwClosed, playPc, speaker, spkEOF,
                   playRes>>
    /\ PipeFrame

\* if opts.play: io.Pipe, go func() { io.Copy ... }, playToSpeakers(ctx, pr)
StartFanOut ==
    /\ mainPc = "branch"
    /\ opts.play
    /\ mainPc' = "playing"
    /\ copyPc' = "read"
    /\ playPc' = "decode"
    /\ UNCHANGED <<opts, src, requests, srcPos, buf, written, copyRes, chans,
                   file, pipeBuf, pipeWr, pwClosed, speaker, spkEOF, playRes,
                   retN, retErr>>
    /\ PipeFrame

\* if len(writers) == 0: nothing to do
NothingToDo ==
    /\ mainPc = "branch"
    /\ ~opts.play
    /\ opts.outputPath = ""
    /\ Return(0, "nothing")
    /\ UNCHANGED <<opts, src, requests, srcPos, buf, written, copyPc, copyRes,
                   chans, file, pipeBuf, pipeWr, pwClosed, playPc, speaker,
                   spkEOF, playRes>>
    /\ PipeFrame

\* file only: n, err := io.Copy(mw, resp) in the calling goroutine
StartDirectCopy ==
    /\ mainPc = "branch"
    /\ ~opts.play
    /\ opts.outputPath # ""
    /\ mainPc' = "copying"
    /\ copyPc' = "read"
    /\ UNCHANGED <<opts, src, requests, srcPos, buf, written, copyRes, chans,
                   file, pipeBuf, pipeWr, pwClosed, playPc, speaker, spkEOF,
                   playRes, retN, retErr>>
    /\ PipeFrame

\* io.Copy: one src.Read, which yields a chunk, end-of-stream or an error
CopyRead ==
    /\ copyPc = "read"
    /\ \/ \E k \in 1..(Len(src) - srcPos) :
             /\ buf' = SubSeq(src, srcPos + 1, srcPos + k)
             /\ srcPos' = srcPos + k
             /\ copyPc' = "write"
             /\ UNCHANGED copyRes
       \/ /\ srcPos = Len(src)
          /\ copyRes' = "nil"
          /\ copyPc' = "finish"
          /\ UNCHANGED <<buf, srcPos>>
       \/ /\ copyRes' = "src"
          /\ copyPc' = "finish"
          /\ UNCHANGED <<buf, srcPos>>
    /\ UNCHANGED <<opts, src, mainPc, requests, written, chans, file, pipeBuf,
                   pipeWr, pwClosed, playPc, speaker, spkEOF, playRes, retN,
                   retErr>>
    /\ PipeFrame

\* CopyWriteFile with the file's short write ignored: the copy goes on
CopyWriteFileIgnoreErr ==
    /\ copyPc = "write"
    /\ IF opts.outputPath # ""
          THEN \E n \in 0..Len(buf) :
                  /\ file' = file \o Take(buf, n)
                  /\ IF opts.play
                        THEN /\ copyPc' = "pipe"
                             /\ UNCHANGED <<written, copyRes>>
                        ELSE /\ written' = written + Len(buf)
                             /\ copyPc' = "read"
                             /\ UNCHANGED copyRes
          ELSE /\ copyPc' = "pipe"
               /\ UNCHANGED <<file, written, copyRes>>
    /\ UNCHANGED <<opts, src, mainPc, requests, srcPos, buf, chans, pipeBuf,
                   pipeWr, pwClosed, playPc, speaker, spkEOF, playRes, retN,
                   retErr>>
    /\ PipeFrame

\* io.MultiWriter.Write, first writer: the file.  A failed write stops the
\* MultiWriter before the next writer, and io.Copy stops with its error.
CopyWriteFile ==
    /\ copyPc = "write"
    /\ IF opts.outputPath # ""
          THEN \E n \in 0..Len(buf) :
                  /\ file' = file \o Take(buf, n)
                  /\ IF n < Len(buf)
                        THEN /\ written' = written + n
                             /\ copyRes' = "file"
                             /\ copyPc' = "finish"
                        ELSE IF opts.play
                                THEN /\ copyPc' = "pipe"
                                     /\ UNCHANGED <<written, copyRes>>
                                ELSE /\ written' = written + Len(buf)
                                     /\ copyPc' = "read"
                                     /\ UNCHANGED copyRes
          ELSE /\ copyPc' = "pipe"
               /\ UNCHANGED <<file, written, copyRes>>
    /\ UNCHANGED <<opts, src, mainPc, requests, srcPos, buf, chans, pipeBuf,
                   pipeWr, pwClosed, playPc, speaker, spkEOF, playRes, retN,
                   retErr>>
    /\ PipeFrame

\* io.MultiWriter.Write, last writer: pw.Write offers the chunk to the reader
CopyWritePipe ==
    /\ copyPc = "pipe"
    /\ pipeBuf' = buf
    /\ pipeWr' = TRUE
    /\ copyPc' = "pipeWait"
    /\ UNCHANGED <<opts, src, mainPc, requests, srcPos, buf, written, copyRes,
                   chans, file, pwClosed, playPc, speaker, spkEOF, playRes,
                   retN, retErr>>
    /\ PipeFrame

\* pw.Write returns once the reader has taken the whole chunk
CopyPipeDone ==
    /\ copyPc = "pipeWait"
    /\ ~pipeWr
    /\ written' = written + Len(buf)
    /\ copyPc' = "read"
    /\ UNCHANGED <<opts, src, mainPc, requests, srcPos, buf, copyRes, chans,
                   file, pipeBuf, pipeWr, pwClosed, playPc, speaker, spkEOF,
                   playRes, retN, retErr>>
    /\ PipeFrame

\* copyN <- n; copyErr <- err
CopySend ==
    /\ copyPc = "finish"
    /\ mainPc = "playing"
    /\ chans' = TRUE
    /\ copyPc' = "close"
    /\ UNCHANGED <<opts, src, mainPc, requests, srcPos, buf, written, copyRes,
                   file, pipeBuf, pipeWr, pwClosed, playPc, speaker, spkEOF,
                   playRes, retN, retErr>>
    /\ PipeFrame

\* _ = pw.Close()
CopyClose ==
    /\ copyPc = "close"
    /\ pwClosed' = TRUE
    /\ copyPc' = "done"
    /\ UNCHANGED <<opts, src, mainPc, requests, srcPos, buf, written, copyRes,
                   chans, file, pipeBuf, pipeWr, playPc, speaker, spkEOF,
                   playRes, retN, retErr>>
    /\ PipeFrame

\* return n, err of the file-only copy
DirectCopyReturn ==
    /\ mainPc = "copying"
    /\ copyPc = "finish"
    /\ copyPc' = "done"
    /\ Return(written, copyRes)
    /\ UNCHANGED <<opts, src, requests, srcPos, buf, written, copyRes, chans,
                   file, pipeBuf, pipeWr, pwClosed, playPc, speaker, spkEOF,
                   playRes>>
    /\ PipeFrame

\* JoinErr with the playback error tested first
JoinErrPlayFirst(copyErrVal, playErr) ==
    IF playErr # "nil" THEN playErr ELSE copyErrVal

\* the precedence of the two errors at the end of the fan-out
JoinErr(copyErrVal, playErr) == IF copyErrVal # "nil" THEN copyErrVal ELSE playErr

\* JoinN with the count dropped when playback failed
JoinNZeroOnPlayErr(copyNVal, playErr) ==
    IF playErr # "nil" THEN 0 ELSE copyNVal

\* the byte count reported at the end of the fan-out
JoinN(copyNVal, playErr) == copyNVal

\* playErr := playToSpeakers(...); copyNVal := <-copyN; copyErrVal := <-copyErr
JoinReturn ==
    /\ mainPc = "playing"
    /\ playPc = "done"
    /\ chans
    /\ Return(JoinN(written, playRes), JoinErr(copyRes, playRes))
    /\ UNCHANGED <<opts, src, requests, srcPos, buf, written, copyPc, copyRes,
                   chans, file, pipeBuf, pipeWr, pwClosed, playPc, speaker,
                   spkEOF, playRes>>
    /\ PipeFrame

(***************************************************************************)
(* StreamToSpeakers, the consumer behind playToSpeakers: mp3.NewDecoder    *)
(* reads the head of the stream, the audio context is obtained, and the    *)
(* player then pulls bytes through the decoder until waitForPlayback       *)
(* returns.  It never closes the read end of the pipe.                     *)
(***************************************************************************)
\* pr.Read by the decoder: takes part or all of the chunk on offer
PlayRead ==
    /\ playPc \in {"decode", "playing"}
    /\ pipeWr
    /\ \E k \in (IF pipeBuf = <<>> THEN {0} ELSE 1..Len(pipeBuf)) :
          /\ speaker' = speaker \o Take(pipeBuf, k)
          /\ pipeBuf' = Drop(pipeBuf, k)
          /\ pipeWr' = (k < Len(pipeBuf))
    /\ UNCHANGED <<opts, src, mainPc, requests, srcPos, buf, written, copyPc,
                   copyRes, chans, file, pwClosed, playPc, spkEOF, playRes,
                   retN, retErr>>
    /\ PipeFrame

\* pr.Read returns io.EOF
PlayEOF ==
    /\ playPc \in {"decode", "playing"}
    /\ ~pipeWr
    /\ pwClosed
    /\ ~spkEOF
    /\ spkEOF' = TRUE
    /\ UNCHANGED <<opts, src, mainPc, requests, srcPos, buf, written, copyPc,
                   copyRes, chans, file, pipeBuf, pipeWr, pwClosed, playPc,
                   speaker, playRes, retN, retErr>>
    /\ PipeFrame

\* mp3.NewDecoder has read from the stream and returns; getAudioContext.
\* Either may fail ("decode mp3", "audio context"); else player.Play()
PlayOpen ==
    /\ playPc = "decode"
    /\ speaker # <<>> \/ spkEOF
    /\ \E ok \in BOOLEAN :
          IF ok THEN playPc' = "playing" /\ UNCHANGED playRes
                ELSE playPc' = "done" /\ playRes' = "play"
    /\ UNCHANGED <<opts, src, mainPc, requests, srcPos, buf, written, copyPc,
                   copyRes, chans, file, pipeBuf, pipeWr, pwClosed, speaker,
                   spkEOF, retN, retErr>>
    /\ PipeFrame

\* waitForPlayback returns: nil once the player no longer plays, or ctx.Err()
PlayReturn ==
    /\ playPc = "playing"
    /\ playPc' = "done"
    /\ \E e \in {"nil", "play"} : playRes' = e
    /\ UNCHANGED <<opts, src, mainPc, requests, srcPos, buf, written, copyPc,
                   copyRes, chans, file, pipeBuf, pipeWr, pwClosed, speaker,
                   spkEOF, retN, retErr>>
    /\ PipeFrame

(***************************************************************************)
(* convertAndPlay: the whole payload is downloaded first.                  *)
(***************************************************************************)
\* client.ConvertTTS; n := int64(len(data))
ConvertTTS ==
    /\ mainPc = "start"
    /\ ~opts.stream
    /\ requests' = requests + 1
    /\ \E ok \in BOOLEAN :
          IF ok THEN /\ mainPc' = "cwrite"
                     /\ buf' = src
                     /\ srcPos' = Len(src)
                     /\ UNCHANGED <<retN, retErr>>
                ELSE /\ Return(0, "transport")
                     /\ UNCHANGED <<buf, srcPos>>
    /\ UNCHANGED <<opts, src, written, copyPc, copyRes, chans, file, pipeBuf,
                   pipeWr, pwClosed, playPc, speaker, spkEOF, playRes>>
    /\ PipeFrame

\* os.MkdirAll and os.WriteFile: a failure returns before playback
ConvertWriteFile ==
    /\ mainPc = "cwrite"
    /\ IF opts.outputPath # ""
          THEN \/ /\ Return(Len(buf), "create")
                  /\ UNCHANGED file
               \/ \E n \in 0..Len(buf) :
                     /\ file' = Take(buf, n)
                     /\ IF n < Len(buf)
                           THEN Return(Len(buf), "file")
                           ELSE mainPc' = "cbranch" /\ UNCHANGED <<retN, retErr>>
               \/ /\ file' = buf
                  /\ Return(Len(buf), "file")
          ELSE /\ mainPc' = "cbranch"
               /\ UNCHANGED <<file, retN, retErr>>
    /\ UNCHANGED <<opts, src, requests, srcPos, buf, written, copyPc, copyRes,
                   chans, pipeBuf, pipeWr, pwClosed, playPc, speaker, spkEOF,
                   playRes>>
    /\ PipeFrame

\* if opts.play: go func() { pw.Write(data); pw.Close() }; playToSpeakers
ConvertStartPlay ==
    /\ mainPc = "cbranch"
    /\ opts.play
    /\ mainPc' = "cplaying"
    /\ copyPc' = "cpipe"
    /\ playPc' = "decode"
    /\ UNCHANGED <<opts, src, requests, srcPos, buf, written, copyRes, chans,
                   file, pipeBuf, pipeWr, pwClosed, speaker, spkEOF, playRes,
                   retN, retErr>>
    /\ PipeFrame

\* _, _ = pw.Write(data)
ConvertWritePipe ==
    /\ copyPc = "cpipe"
    /\ pipeBuf' = buf
    /\ pipeWr' = TRUE
    /\ copyPc' = "cpipeWait"
    /\ UNCHANGED <<opts, src, mainPc, requests, srcPos, buf, written, copyRes,
                   chans, file, pwClosed, playPc, speaker, spkEOF, playRes,
                   retN, retErr>>
    /\ PipeFrame

\* pw.Write returns; next is pw.Close()
ConvertPipeDone ==
    /\ copyPc = "cpipeWait"
    /\ ~pipeWr
    /\ copyPc' = "close"
    /\ UNCHANGED <<opts, src, mainPc, requests, srcPos, buf, written, copyRes,
                   chans, file, pipeBuf, pipeWr, pwClosed, playPc, speaker,
                   spkEOF, playRes, retN, retErr>>
    /\ PipeFrame

\* return n, playToSpeakers(ctx, pr)
ConvertPlayReturn ==
    /\ mainPc = "cplaying"
    /\ playPc = "done"
    /\ Return(Len(buf), playRes)
    /\ UNCHANGED <<opts, src, requests, srcPos, buf, written, copyPc, copyRes,
                   chans, file, pipeBuf, pipeWr, pwClosed, playPc, speaker,
                   spkEOF, playRes>>
    /\ PipeFrame

\* if opts.outputPath == "": nothing to do
ConvertNothingToDo ==
    /\ mainPc = "cbranch"
    /\ ~opts.play
    /\ opts.outputPath = ""
    /\ Return(Len(buf), "nothing")
    /\ UNCHANGED <<opts, src, requests, srcPos, buf, written, copyPc, copyRes,
                   chans, file, pipeBuf, pipeWr, pwClosed, playPc, speaker,
                   spkEOF, playRes>>
    /\ PipeFrame

\* return n, nil
ConvertDone ==
    /\ mainPc = "cbranch"
    /\ ~opts.play
    /\ opts.outputPath # ""
    /\ Return(Len(buf), "nil")
    /\ UNCHANGED <<opts, src, requests, srcPos, buf, written, copyPc, copyRes,
                   chans, file, pipeBuf, pipeWr, pwClosed, playPc, speaker,
                   spkEOF, playRes>>
    /\ PipeFrame

(***************************************************************************)
(* Strings are sequences of one-character strings.                         *)
(***************************************************************************)
Digits == {"0", "1", "2", "3", "4", "5", "6", "7", "8", "9"}

\* unicode.ToLower on the letters the model uses
LowerChar(c) ==
    CASE c = "A" -> "a"
      [] c = "B" -> "b"
      [] OTHER -> c

\* strings.ToLower
ToLower(s) == [i \in 1..Len(s) |-> LowerChar(s[i])]

RECURSIVE TrimLeft(_)
TrimLeft(s) ==
    IF s # <<>> /\ Head(s) = " " THEN TrimLeft(Tail(s)) ELSE s

RECURSIVE TrimRight(_)
TrimRight(s) ==
    IF s # <<>> /\ s[Len(s)] = " " THEN TrimRight(Take(s, Len(s) - 1)) ELSE s

\* strings.TrimSpace
TrimSpace(s) == TrimRight(TrimLeft(s))

\* strings.Contains(s, sub)
Contains(s, sub) ==
    \E i \in 0..(Len(s) - Len(sub)) : SubSeq(s, i + 1, i + Len(sub)) = sub

\* shortest input the id heuristic accepts
IDMinLen == 15

\* looksLikeVoiceID with the length compared by > where the code has >=
looksLikeVoiceIDStrict(s) ==
    /\ Len(s) > IDMinLen
    /\ \A i \in 1..Len(s) : s[i] # " "

\* len(voiceInput) >= 15 && !strings.ContainsRune(voiceInput, ' ')
looksLikeVoiceID(s) ==
    /\ Len(s) >= IDMinLen
    /\ \A i \in 1..Len(s) : s[i] # " "

\* containsDigit without the upper limit '9': r >= '0' holds of every letter
\* and digit, and of '?', but not of the space
containsDigitNoUpper(s) == \E i \in 1..Len(s) : s[i] # " "

\* for _, r := range s { if r >= '0' && r <= '9' { return true } }
containsDigit(s) == \E i \in 1..Len(s) : s[i] \in Digits

(***************************************************************************)
(* Voice resolution                                                        *)
(***************************************************************************)
NoErr == [kind |-> "nil", input |-> <<>>]

ErrOf(k, in) == [kind |-> k, input |-> in]

NoNotice == [kind |-> "none", name |-> <<>>, id |-> <<>>]

\* what one resolution call returns and prints, and the requests it made
Out(id, err, nt, tb, calls) ==
    [id |-> id, err |-> err, notice |-> nt, table |-> tb, calls |-> calls]

\* least index of vs whose voice is in the set S of indices; 0 when none
First(S) == IF S = {} THEN 0 ELSE CHOOSE i \in S : \A j \in S : i <= j

\* ExactMatch with the listed name compared as it is spelled
ExactMatchCaseSensitive(vs, low) ==
    First({i \in 1..Len(vs) : vs[i].Name = low})

\* for _, v := range voices { if strings.ToLower(v.Name) == voiceInputLower
ExactMatch(vs, low) ==
    First({i \in 1..Len(vs) : ToLower(vs[i].Name) = low})

\* SubstringMatch that accepts the input only at the start of the name
SubstringMatchPrefix(vs, low) ==
    First({i \in 1..Len(vs) :
              /\ Len(low) <= Len(vs[i].Name)
              /\ Take(ToLower(vs[i].Name), Len(low)) = low})

\* SubstringMatch with the arguments of strings.Contains exchanged
SubstringMatchSwapped(vs, low) ==
    First({i \in 1..Len(vs) : Contains(low, ToLower(vs[i].Name))})

\* for _, v := range voices { if strings.Contains(strings.ToLower(v.Name), ...
SubstringMatch(vs, low) ==
    First({i \in 1..Len(vs) : Contains(ToLower(vs[i].Name), low)})

\* MiniMaxExactMatch comparing the names only
MiniMaxExactMatchNameOnly(vs, low) ==
    First({i \in 1..Len(vs) : ToLower(vs[i].Name) = low})

\* MiniMax: strings.ToLower(v.VoiceID) == low || strings.ToLower(v.Name) == low
MiniMaxExactMatch(vs, low) ==
    First({i \in 1..Len(vs) :
              ToLower(vs[i].VoiceID) = low \/ ToLower(vs[i].Name) = low})

\* UseVoice returning the voice's name where its id belongs
UseVoiceName(v, calls) ==
    Out(v.Name, NoErr, [kind |-> "using", name |-> v.Name, id |-> v.VoiceID],
        <<>>, calls)

\* fmt.Fprintf(os.Stderr, "using voice %s (%s)\n", ...); return v.VoiceID, nil
UseVoice(v, calls) ==
    Out(v.VoiceID, NoErr, [kind |-> "using", name |-> v.Name, id |-> v.VoiceID],
        <<>>, calls)

\* "defaulting to voice %s (%s)\n"; return voices[0].VoiceID, nil
DefaultVoice(v, calls) ==
    Out(v.VoiceID, NoErr,
        [kind |-> "defaulting", name |-> v.Name, id |-> v.VoiceID], <<>>, calls)

\* PassThrough returning the lower-cased copy the name comparison uses
PassThroughLower(in, calls) == Out(ToLower(in), NoErr, NoNotice, <<>>, calls)

\* return voiceInput, nil
PassThrough(in, calls) == Out(in, NoErr, NoNotice, <<>>, calls)

\* return "", err
Fail(k, in, calls) == Out(<<>>, ErrOf(k, in), NoNotice, <<>>, calls)

\* strings.ReplaceAll(strings.ReplaceAll(v.Description, "\t", " "), "\n", " ")
FlattenDesc(d) ==
    [i \in 1..Len(d) |-> IF d[i] \in {"\t", "\n"} THEN " " ELSE d[i]]

\* the tabwriter listing: the header, then one row per voice; the ElevenLabs
\* listing (withDesc) has a fourth column, the flattened description
Listing(header, vs, withDesc) ==
    <<header>> \o
    [i \in 1..Len(vs) |->
        IF withDesc
        THEN <<vs[i].VoiceID, vs[i].Name, vs[i].Category,
               FlattenDesc(vs[i].Description)>>
        ELSE <<vs[i].VoiceID, vs[i].Name, vs[i].Category>>]

\* resolveDefault taking the last voice of the list
resolveDefaultLast(vs, ok) ==
    IF ~ok THEN Fail("listFailedNoVoice", <<>>, 1)
    ELSE IF Len(vs) = 0 THEN Fail("noVoices", <<>>, 1)
    ELSE DefaultVoice(vs[Len(vs)], 1)

\* input "" : the first voice of the list
resolveDefault(vs, ok) ==
    IF ~ok THEN Fail("listFailedNoVoice", <<>>, 1)
    ELSE IF Len(vs) = 0 THEN Fail("noVoices", <<>>, 1)
    ELSE DefaultVoice(vs[1], 1)

\* resolveList printing the header and dropping the rows
resolveListHeaderOnly(header, vs, withDesc, ok) ==
    IF ~ok THEN Fail("listFailed", <<>>, 1)
    ELSE Out(<<>>, NoErr, NoNotice, <<header>>, 1)

\* input "?" : print the listing, return ""
resolveList(header, vs, withDesc, ok) ==
    IF ~ok THEN Fail("listFailed", <<>>, 1)
    ELSE Out(<<>>, NoErr, NoNotice, Listing(header, vs, withDesc), 1)

\* resolveVoice(ctx, client, voiceInput, forceID); ok: ListVoices succeeds
resolveVoice(vs, ok, input, force) ==
    LET in == TrimSpace(input)
        low == ToLower(in)
        exact == ExactMatch(vs, low)
        sub == SubstringMatch(vs, low)
    IN  IF in = <<>> THEN resolveDefault(vs, ok)
        ELSE IF in = <<"?">> THEN resolveList("VOICE ID NAME CATEGORY DESCRIPTION", vs, TRUE, ok)
        ELSE IF force THEN PassThrough(in, 0)
        ELSE IF looksLikeVoiceID(in)
            THEN IF containsDigit(in) THEN PassThrough(in, 0)
                 ELSE IF ~ok THEN Fail("listFailed", <<>>, 1)
                 ELSE IF exact # 0 THEN UseVoice(vs[exact], 1)
                 ELSE PassThrough(in, 1)
        ELSE IF ~ok THEN Fail("listFailed", <<>>, 1)
        ELSE IF exact # 0 THEN UseVoice(vs[exact], 1)
        ELSE IF sub # 0 THEN UseVoice(vs[sub], 1)
        ELSE Fail("notFound", in, 1)

\* resolveMiniMaxVoice(ctx, client, voiceInput, forceID)
resolveMiniMaxVoice(vs, ok, input, force) ==
    LET in == TrimSpace(input)
        low == ToLower(in)
        exact == MiniMaxExactMatch(vs, low)
        sub == SubstringMatch(vs, low)
    IN  IF in = <<>> THEN resolveDefault(vs, ok)
        ELSE IF in = <<"?">> THEN resolveList("VOICE ID NAME CATEGORY", vs, FALSE, ok)
        ELSE IF force THEN PassThrough(in, 0)
        ELSE IF ~ok THEN PassThrough(in, 1)
        ELSE IF exact # 0 THEN UseVoice(vs[exact], 1)
        ELSE IF sub # 0 THEN UseVoice(vs[sub], 1)
        ELSE PassThrough(in, 1)

(***************************************************************************)
(* The voice lists and inputs the resolution is run on.                    *)
(***************************************************************************)
NameChars == {"a", "A", "b"}

Fill(n) == [i \in 1..n |-> "b"]

\* names around the length the id heuristic looks at
LongNames ==
    { <<"a">> \o Fill(IDMinLen - 1), <<"a">> \o Fill(IDMinLen),
      <<"1">> \o Fill(IDMinLen - 1), <<"1">> \o Fill(IDMinLen),
      <<"a", " ">> \o Fill(IDMinLen - 1) }

\* every short name, the long ones, and names that look like other inputs
NamePool ==
    SeqsUpTo(NameChars, MaxNameLen) \cup LongNames \cup {<<"?">>, <<" ", "a">>}

IdDigit == <<"1", "2", "3", "4">>

\* the provider's id of the i-th listed voice
VoiceIDOf(i) == <<"A", IdDigit[i]>>

\* the provider's category of the i-th listed voice
CategoryOf(i) == IF i = 1 THEN "premade" ELSE "cloned"

\* the provider's description of the i-th listed voice
DescriptionOf(i) == IF i = 1 THEN <<"a", "\t", "b">> ELSE <<"a", "\n">>

MkVoices(names) ==
    [i \in 1..Len(names) |->
        [VoiceID |-> VoiceIDOf(i), Name |-> names[i],
         Category |-> CategoryOf(i), Description |-> DescriptionOf(i)]]

InputPool ==
    NamePool \cup
    { <<>>, <<"?">>, <<" ">>, <<" ", "a">>, <<"a", " ">>, <<"1">>,
      <<"A", "1">>, <<"a", "1">>, <<"a", "2">>,
      <<"A">> \o Fill(IDMinLen - 1), <<"a">> \o Fill(IDMinLen - 2),
      <<"1">> \o Fill(IDMinLen - 2), <<"1", " ">> \o Fill(IDMinLen - 2) }

\* the pipeline before a speak command has started it
PipeIdle ==
    /\ opts = [play |-> TRUE, outputPath |-> "", stream |-> TRUE]
    /\ src = <<>>
    /\ mainPc = "idle"
    /\ requests = 0
    /\ srcPos = 0
    /\ buf = <<>>
    /\ written = 0
    /\ copyPc = "idle"
    /\ copyRes = "nil"
    /\ chans = FALSE
    /\ file = <<>>
    /\ pipeBuf = <<>>
    /\ pipeWr = FALSE
    /\ pwClosed = FALSE
    /\ playPc = "idle"
    /\ speaker = <<>>
    /\ spkEOF = FALSE
    /\ playRes = "nil"
    /\ retN = 0
    /\ retErr = "nil"

\* the resolution once it has handed the voice id to the pipeline
ResIdle ==
    /\ provider = "elevenlabs"
    /\ voices = <<>>
    /\ voiceInput = <<>>
    /\ forceID = TRUE
    /\ resPc = "idle"
    /\ voiceID = <<>>
    /\ resErr = NoErr
    /\ notice = NoNotice
    /\ table = <<>>
    /\ listCalls = 0
    /\ listOK = TRUE

ResInit ==
    /\ provider \in {"elevenlabs", "minimax"}
    /\ \E names \in SeqsUpTo(NamePool, MaxVoices) : voices = MkVoices(names)
    /\ voiceInput \in InputPool
    /\ forceID \in BOOLEAN
    /\ resPc = "start"
    /\ voiceID = <<>>
    /\ resErr = NoErr
    /\ notice = NoNotice
    /\ table = <<>>
    /\ listCalls = 0
    /\ listOK = TRUE

\* the caller takes the outcome r of a resolution call
Resolved(r, ok) ==
    /\ resPc' = "done"
    /\ voiceID' = r.id
    /\ resErr' = r.err
    /\ notice' = r.notice
    /\ table' = r.table
    /\ listCalls' = r.calls
    /\ listOK' = ok
    /\ UNCHANGED <<provider, voices, voiceInput, forceID>>

\* default: voiceID, err := resolveVoice(cmd.Context(), elevenClient, ...)
ResolveVoice ==
    /\ resPc = "start"
    /\ provider = "elevenlabs"
    /\ \E ok \in BOOLEAN :
          Resolved(resolveVoice(voices, ok, voiceInput, forceID), ok)
    /\ ResFrame

\* case providerMiniMax: voiceID, err := resolveMiniMaxVoice(...)
ResolveMiniMaxVoice ==
    /\ resPc = "start"
    /\ provider = "minimax"
    /\ \E ok \in BOOLEAN :
          Resolved(resolveMiniMaxVoice(voices, ok, voiceInput, forceID), ok)
    /\ ResFrame

(***************************************************************************)
(* The speak command (cmd/speak.go): RunE from the options to the          *)
(* synthesis request.  A number with a fraction is in tenths, the speed a  *)
(* fraction [n, d]; the seed is its upper 32 bits.  No --output is given.  *)
(***************************************************************************)
\* most flags set on one command line
MaxFlags == 2

\* const defaultWPM = 175
defaultWPM == 175

\* strings.HasPrefix
HasPrefix(s, p) == Len(s) >= Len(p) /\ SubSeq(s, 1, Len(p)) = p

ElevenV3 == <<"e", "l", "e", "v", "e", "n", "_", "v", "3">>

ModelPool ==
    { ElevenV3,
      <<"e", "l", "e", "v", "e", "n", "_", "v", "2">>,
      <<"s", "p", "e", "e", "c", "h", "-", "2">> }

\* detectProvider
detectProvider(modelID) ==
    IF HasPrefix(ToLower(TrimSpace(modelID)),
                 <<"s", "p", "e", "e", "c", "h", "-">>)
    THEN "minimax"
    ELSE "elevenlabs"

\* the flags with a number, a string, and no value the command looks at
NumFlags ==
    {"speed", "rate", "stability", "similarity", "style", "seed", "volume",
     "pitch"}

StrFlags == {"normalize", "lang", "format", "emotion"}

BoolFlags == {"speaker-boost", "no-speaker-boost"}

\* the values tried for a flag that is set: some the command accepts, some
\* it rejects
NumPool(f) ==
    CASE f = "speed" -> {11, 20}
      [] f = "rate" -> {200, 350}
      [] f = "stability" -> {3, 5, 15}
      [] f = "similarity" -> {5, 15}
      [] f = "style" -> {5, -1}
      [] f = "seed" -> {0, 1}
      [] f = "volume" -> {0, 100}
      [] f = "pitch" -> {12, -13}

StrPool(f) ==
    CASE f = "normalize" -> {<<" ", "o", "n">>, <<"n", "o">>}
      [] f = "lang" -> {<<"A", "b">>, <<"a", "b", "a">>, <<"a", "1">>}
      [] f = "format" -> {<<"m", "p", "3">>, <<"w", "a", "v">>,
                          <<"o", "g", "g">>}
      [] f = "emotion" -> {<<"a">>, <<" ">>}

\* the value of a flag that is not set: speed 1.0, format mp3_44100_128
NumDefault(f) == IF f = "speed" THEN 10 ELSE 0

StrDefault(f) ==
    IF f = "format"
    THEN <<"m", "p", "3", "_", "4", "4", "1", "0", "0", "_", "1", "2", "8">>
    ELSE <<>>

\* the numbers and strings of a command line on which the flags of C are set
NumValues(C) ==
    LET D == C \cap NumFlags
        set == {g \in [D -> UNION {NumPool(f) : f \in NumFlags}] :
                   \A f \in D : g[f] \in NumPool(f)}
    IN  {[f \in NumFlags |-> IF f \in D THEN g[f] ELSE NumDefault(f)] :
            g \in set}

StrValues(C) ==
    LET D == C \cap StrFlags
        set == {g \in [D -> UNION {StrPool(f) : f \in StrFlags}] :
                   \A f \in D : g[f] \in StrPool(f)}
    IN  {[f \in StrFlags |-> IF f \in D THEN g[f] ELSE StrDefault(f)] :
            g \in set}

\* --voice / --voice-id, whether it was --voice-id, and the voice id of the
\* environment
VoicePool ==
    { [voice |-> <<>>, byID |-> FALSE, env |-> <<>>],
      [voice |-> <<>>, byID |-> FALSE, env |-> <<"a", "1">>],
      [voice |-> <<"a">>, byID |-> FALSE, env |-> <<>>],
      [voice |-> <<"b", "b">>, byID |-> FALSE, env |-> <<>>],
      [voice |-> <<"?">>, byID |-> FALSE, env |-> <<>>],
      [voice |-> <<"a", "1">>, byID |-> TRUE, env |-> <<"a", "2">>] }

\* where the text comes from: the arguments, --input-file, piped stdin, or
\* nothing at all on a terminal
TextPool == {"args", "file", "stdin", "tty"}

\* the sets of at most MaxFlags flags
FlagSets ==
    {S \in SUBSET (NumFlags \cup StrFlags \cup BoolFlags) :
        Cardinality(S) <= MaxFlags}

\* speakOptions and what cmd.Flags().Changed tells, before RunE
SpeakOpts(m, C, n, t, v, x, st) ==
    [modelID |-> m, changed |-> C, num |-> n, str |-> t,
     speed |-> [n |-> NumDefault("speed"), d |-> 10], voice |-> v,
     text |-> x, stream |-> st, play |-> TRUE]

NoIO == [reads |-> 0, requests |-> 0]

SpeakIdle ==
    /\ speakOpts = [modelID |-> ElevenV3]
    /\ speakPc = "idle"
    /\ speakErr = "nil"
    /\ speakIO = NoIO

\* the speak command is started on a command line with at most MaxFlags of
\* the flags set; the provider has two voices
SpeakInit ==
    /\ speakPc = "start"
    /\ speakErr = "nil"
    /\ speakIO = NoIO
    /\ provider = "elevenlabs"
    /\ voices = MkVoices(<< <<"a">>, <<"a", "b">> >>)
    /\ voiceInput = <<>>
    /\ forceID = FALSE
    /\ resPc = "idle"
    /\ voiceID = <<>>
    /\ resErr = NoErr
    /\ notice = NoNotice
    /\ table = <<>>
    /\ listCalls = 0
    /\ listOK = TRUE
    /\ \E C \in FlagSets, m \in ModelPool, v \in VoicePool, x \in TextPool,
          st \in BOOLEAN :
          \E n \in NumValues(C), t \in StrValues(C) :
             speakOpts = SpeakOpts(m, C, n, t, v, x, st)

\* speed <= 0.5 || speed >= 2.0 of a speed n / d
SpeedOutOfRange(sp) == 2 * sp.n <= sp.d \/ sp.n >= 2 * sp.d

\* applyRateAndSpeed: the options with the speed it leaves, and its error
applyRateAndSpeed(o) ==
    IF o.num["rate"] > 0
    THEN LET sp == [n |-> o.num["rate"], d |-> defaultWPM]
         IN  [opts |-> [o EXCEPT !.speed = sp],
              err |-> IF SpeedOutOfRange(sp) THEN "rate" ELSE "nil"]
    ELSE LET sp == [n |-> o.num["speed"], d |-> 10]
         IN  [opts |-> [o EXCEPT !.speed = sp],
              err |-> IF SpeedOutOfRange(sp) THEN "speed" ELSE "nil"]

LowerLetters ==
    {"a", "b", "c", "d", "e", "f", "g", "h", "i", "j", "k", "l", "m", "n",
     "o", "p", "q", "r", "s", "t", "u", "v", "w", "x", "y", "z"}

\* buildTTSRequest: the check that fails first, "nil" when the request is
\* built
buildTTSRequest(o) ==
    LET set(f) == f \in o.changed
        normalize == ToLower(TrimSpace(o.str["normalize"]))
        lang == ToLower(TrimSpace(o.str["lang"]))
    IN  CASE set("stability")
               /\ (o.num["stability"] < 0 \/ o.num["stability"] > 10)
                -> "stability"
          [] set("stability") /\ o.modelID = ElevenV3
               /\ o.num["stability"] \notin {0, 5, 10} -> "stability"
          [] set("similarity")
               /\ (o.num["similarity"] < 0 \/ o.num["similarity"] > 10)
                -> "similarity"
          [] set("style") /\ (o.num["style"] < 0 \/ o.num["style"] > 10)
                -> "style"
          [] set("speaker-boost") /\ set("no-speaker-boost") -> "boost"
          [] set("seed") /\ o.num["seed"] > 0 -> "seed"
          [] set("normalize")
               /\ normalize \notin {<<"a", "u", "t", "o">>, <<"o", "n">>,
                                    <<"o", "f", "f">>} -> "normalize"
          [] set("lang")
               /\ (Len(lang) # 2
                   \/ \E i \in 1..Len(lang) : lang[i] \notin LowerLetters)
                -> "lang"
          [] OTHER -> "nil"

\* normalizeMiniMaxFormat: the format, <<>> when it is not supported
normalizeMiniMaxFormat(format) ==
    LET f == ToLower(TrimSpace(format))
        mp3 == <<"m", "p", "3">>
        wav == <<"w", "a", "v">>
    IN  CASE f = <<>> -> mp3
          [] f \in {mp3, wav, <<"f", "l", "a", "c">>} -> f
          [] HasPrefix(f, mp3 \o <<"_">>) -> mp3
          [] HasPrefix(f, <<"p", "c", "m", "_">>) -> wav
          [] OTHER -> <<>>

\* buildMiniMaxTTSRequest, of which the checks of the format, the volume,
\* the pitch and the emotion are modelled
buildMiniMaxTTSRequest(o) ==
    LET set(f) == f \in o.changed
        format == normalizeMiniMaxFormat(o.str["format"])
        mp3 == <<"m", "p", "3">>
    IN  CASE format = <<>> -> "format"
          [] set("format") /\ o.stream /\ format # mp3 -> "format"
          [] set("format") /\ o.play /\ format # mp3 -> "format"
          [] set("volume") /\ (o.num["volume"] <= 0 \/ o.num["volume"] > 100)
                -> "volume"
          [] set("pitch") /\ (o.num["pitch"] < -12 \/ o.num["pitch"] > 12)
                -> "pitch"
          [] set("emotion") /\ TrimSpace(o.str["emotion"]) = <<>> -> "emotion"
          [] OTHER -> "nil"

\* RunE returns err
SpeakReturn(err) ==
    /\ speakPc' = "done"
    /\ speakErr' = err

\* RunE up to the voice resolution: applyRateAndSpeed, detectProvider, the
\* voice of the flag or of the environment
SpeakStart ==
    /\ speakPc = "start"
    /\ LET r == applyRateAndSpeed(speakOpts)
           v == speakOpts.voice
       IN  /\ speakOpts' = r.opts
           /\ IF r.err # "nil"
              THEN /\ SpeakReturn(r.err)
                   /\ UNCHANGED <<provider, voiceInput, forceID, resPc>>
              ELSE /\ speakPc' = "voice"
                   /\ provider' = detectProvider(speakOpts.modelID)
                   /\ voiceInput' = IF v.voice = <<>> THEN v.env ELSE v.voice
                   /\ forceID' = IF v.voice = <<>> /\ v.env # <<>>
                                 THEN TRUE ELSE v.byID
                   /\ resPc' = "start"
                   /\ UNCHANGED speakErr
    /\ UNCHANGED <<speakIO, voices, voiceID, resErr, notice, table, listCalls,
                   listOK>>
    /\ UNCHANGED <<pipeVars, decVars, cacheVars, queryVars, audioVars>>

\* what the steps of RunE after the resolution leave alone
SpeakFrame ==
    UNCHANGED <<pipeVars, resVars, decVars, cacheVars, queryVars, audioVars>>

\* resolveVoice / resolveMiniMaxVoice has returned: its error, nothing
\* more to do after a listing, or the voice
SpeakVoice ==
    /\ speakPc = "voice"
    /\ resPc = "done"
    /\ IF resErr # NoErr THEN SpeakReturn("voice")
       ELSE IF voiceID = <<>> THEN SpeakReturn("nil")
       ELSE speakPc' = "text" /\ UNCHANGED speakErr
    /\ UNCHANGED <<speakOpts, speakIO>>
    /\ SpeakFrame

\* resolveText: the arguments joined, or the file or stdin read
SpeakText ==
    /\ speakPc = "text"
    /\ CASE speakOpts.text = "args" ->
               /\ speakPc' = "build"
               /\ UNCHANGED <<speakErr, speakIO>>
         [] speakOpts.text = "tty" ->
               /\ SpeakReturn("text")
               /\ UNCHANGED speakIO
         [] OTHER ->
               /\ speakIO' = [speakIO EXCEPT !.reads = @ + 1]
               /\ \/ SpeakReturn("text")
                  \/ speakPc' = "build" /\ UNCHANGED speakErr
    /\ UNCHANGED speakOpts
    /\ SpeakFrame

\* buildMiniMaxTTSRequest or buildTTSRequest, and its error returned
SpeakBuild ==
    /\ speakPc = "build"
    /\ LET err == IF provider = "minimax"
                  THEN buildMiniMaxTTSRequest(speakOpts)
                  ELSE buildTTSRequest(speakOpts)
       IN  IF err # "nil" THEN SpeakReturn(err)
           ELSE speakPc' = "send" /\ UNCHANGED speakErr
    /\ UNCHANGED <<speakOpts, speakIO>>
    /\ SpeakFrame

\* streamAndPlay or convertAndPlay and their MiniMax twins: the synthesis
\* request is made, and succeeds or fails
SpeakSend ==
    /\ speakPc = "send"
    /\ speakIO' = [speakIO EXCEPT !.requests = @ + 1]
    /\ \E err \in {"nil", "synthesis"} : SpeakReturn(err)
    /\ UNCHANGED speakOpts
    /\ SpeakFrame

(***************************************************************************)
(* MiniMax event-stream decoder: the goroutine of StreamTTS running        *)
(* readMiniMaxStream and handleMiniMaxStreamPayload, and the consumer of   *)
(* the pipe it writes to.  A line of the body is its prefix and the JSON   *)
(* payload it carries; a payload is parsed to its items, and the audio of  *)
(* an item is a string of hexadecimal digits.                              *)
(***************************************************************************)
\* most lines a response body has
MaxLines == 3

\* if item.Data != nil && item.Data.Status == 2
StatusFinal == 2

HexChars == <<"0", "1", "2", "3", "4", "5", "6", "7", "8", "9",
              "a", "b", "c", "d", "e", "f">>

UpperHexChars == <<"0", "1", "2", "3", "4", "5", "6", "7", "8", "9",
                   "A", "B", "C", "D", "E", "F">>

IsHexChar(c) == \E i \in 1..16 : HexChars[i] = c \/ UpperHexChars[i] = c

\* encoding/hex fromHexChar
HexVal(c) == (CHOOSE i \in 1..16 : HexChars[i] = c \/ UpperHexChars[i] = c) - 1

\* hex.DecodeString fails on an odd length and on a character that is no digit
HexOK(h) ==
    /\ Len(h) % 2 = 0
    /\ \A i \in 1..Len(h) : IsHexChar(h[i])

\* HexDecode reading the two digits of a byte in the other order
HexDecodeLowFirst(h) ==
    [i \in 1..(Len(h) \div 2) |-> HexVal(h[2 * i - 1]) + 16 * HexVal(h[2 * i])]

\* hex.DecodeString: two digits a byte, the high digit first
HexDecode(h) ==
    [i \in 1..(Len(h) \div 2) |-> 16 * HexVal(h[2 * i - 1]) + HexVal(h[2 * i])]

\* t2aStreamResponse: data.audio, data.status, base_resp.status_code
Item(a, s, c) == [audio |-> a, status |-> s, code |-> c]

\* a payload that is one JSON object
Obj(it) == [shape |-> "obj", items |-> <<it>>]

\* a payload that is a JSON array of objects
Arr(its) == [shape |-> "arr", items |-> its]

\* a payload json.Unmarshal rejects
BadJSON == [shape |-> "bad", items |-> <<>>]

\* the empty payload
NoPayload == [shape |-> "empty", items |-> <<>>]

\* "48656c6c6f"
HelloHex == <<"4", "8", "6", "5", "6", "c", "6", "c", "6", "f">>

\* "21"
BangHex == <<"2", "1">>

Payloads ==
    { Obj(Item(HelloHex, 1, 0)),
      Obj(Item(<<>>, StatusFinal, 0)),
      Obj(Item(BangHex, StatusFinal, 0)),
      Arr(<<Item(BangHex, StatusFinal, 0), Item(HelloHex, 1, 0)>>),
      Obj(Item(BangHex, 1, 1004)),
      Obj(Item(<<"4">>, 1, 0)),
      Obj(Item(<<"4", "g">>, 1, 0)),
      BadJSON,
      NoPayload }

\* a line of the body: its prefix and its payload
Line(h, p) == [head |-> h, payload |-> p]

\* the lines a body is made of: the blank line, "data:" lines, comment and
\* field lines, a bare JSON line and a line of other text
LinePool ==
    {Line("", NoPayload)} \cup
    {Line("data:", p) : p \in Payloads} \cup
    {Line(":", NoPayload), Line("event:", NoPayload),
     Line("id:", NoPayload), Line("retry:", NoPayload)} \cup
    {Line("{", Obj(Item(BangHex, 1, 0))),
     Line("{", Obj(Item(<<>>, StatusFinal, 0))), Line("{", BadJSON)} \cup
    {Line("text", NoPayload)}

\* LineKind taking a comment line for the blank line that ends an event
LineKindCommentEndsEvent(l) ==
    CASE l.head \in {"", ":"} -> "blank"
      [] l.head = "data:" -> "data"
      [] l.head \in {"event:", "id:", "retry:"} -> "meta"
      [] l.head \in {"{", "["} -> "json"
      [] OTHER -> "text"

\* the branch of readMiniMaxStream a trimmed line takes
LineKind(l) ==
    CASE l.head = "" -> "blank"
      [] l.head = "data:" -> "data"
      [] l.head \in {":", "event:", "id:", "retry:"} -> "meta"
      [] l.head \in {"{", "["} -> "json"
      [] OTHER -> "text"

\* json.Unmarshal of strings.Join(dataLines, "\n"): the one payload that is
\* not empty; two or more payloads joined are not one JSON value
JoinData(ds) ==
    LET ne == SelectSeq(ds, LAMBDA p : p.shape # "empty")
    IN  IF Len(ne) = 0 THEN NoPayload
        ELSE IF Len(ne) = 1 THEN ne[1]
        ELSE BadJSON

\* the decoder's own state
Ctl ==
    [pc |-> decPc, dataLines |-> dataLines, items |-> items, idx |-> itemIdx,
     site |-> site, done |-> streamDone, err |-> decErr, pend |-> pend]

Become(c) ==
    /\ decPc' = c.pc
    /\ dataLines' = c.dataLines
    /\ items' = c.items
    /\ itemIdx' = c.idx
    /\ site' = c.site
    /\ streamDone' = c.done
    /\ decErr' = c.err
    /\ pend' = c.pend

\* readMiniMaxStream returns err; done tells that a final item ended it
Returned(c, e, d) ==
    [c EXCEPT !.pc = "return", !.err = e, !.done = d, !.items = <<>>,
              !.idx = 0, !.pend = <<>>]

\* if err == io.EOF { break }, else the next turn of the loop
AfterLine(c, eof) == [c EXCEPT !.pc = IF eof THEN "tail" ELSE "read"]

\* handleMiniMaxStreamPayload returned (false, nil) to the call c.site
AfterPayload(c, eof) ==
    LET d == [c EXCEPT !.items = <<>>, !.idx = 0]
    IN  CASE c.site = "blank" -> AfterLine([d EXCEPT !.dataLines = <<>>], eof)
          [] c.site = "json" -> AfterLine(d, eof)
          [] OTHER -> Returned(d, "nil", FALSE)

\* for _, item := range items: on to item i
NextItem(c, i, eof) ==
    IF i > Len(c.items) THEN AfterPayload(c, eof)
    ELSE [c EXCEPT !.pc = "handle", !.idx = i]

\* handleMiniMaxStreamPayload up to its loop over the items
handleMiniMaxStreamPayload(c, p, st, eof) ==
    IF p.shape = "empty" THEN AfterPayload([c EXCEPT !.site = st], eof)
    ELSE IF p.shape = "bad" THEN Returned(c, "json", FALSE)
    ELSE NextItem([c EXCEPT !.site = st, !.items = p.items], 1, eof)

\* the statements of the loop body after ReadString, on line l
readLine(c, l, eof) ==
    CASE LineKind(l) = "blank" ->
            IF Len(c.dataLines) > 0
            THEN handleMiniMaxStreamPayload(c, JoinData(c.dataLines),
                                            "blank", eof)
            ELSE AfterLine(c, eof)
      [] LineKind(l) = "data" ->
            AfterLine([c EXCEPT !.dataLines = Append(@, l.payload)], eof)
      [] LineKind(l) = "json" ->
            handleMiniMaxStreamPayload(c, l.payload, "json", eof)
      [] OTHER -> AfterLine(c, eof)

\* AfterItem that goes on to the next item whatever the status is
AfterItemNoFinal(c, eof) == NextItem(c, c.idx + 1, eof)

\* if item.Data != nil && item.Data.Status == 2 { return true, nil }
AfterItem(c, eof) ==
    IF c.items[c.idx].status = StatusFinal THEN Returned(c, "nil", TRUE)
    ELSE NextItem(c, c.idx + 1, eof)

\* the stream before StreamTTS has started its goroutine
DecIdle ==
    /\ body = <<>>
    /\ bodyEOF = FALSE
    /\ decPc = "idle"
    /\ dataLines = <<>>
    /\ items = <<>>
    /\ itemIdx = 0
    /\ site = "none"
    /\ streamDone = FALSE
    /\ decErr = "nil"
    /\ pend = <<>>
    /\ pwState = "open"
    /\ pwErr = "nil"
    /\ got = <<>>
    /\ conEnd = "none"
    /\ ctxDone = FALSE
    /\ prClosed = FALSE
    /\ bodyClosed = FALSE

\* StreamTTS has returned the pipe's read end and started the goroutine
DecInit ==
    /\ body = <<>>
    /\ bodyEOF = FALSE
    /\ decPc = "read"
    /\ dataLines = <<>>
    /\ items = <<>>
    /\ itemIdx = 0
    /\ site = "none"
    /\ streamDone = FALSE
    /\ decErr = "nil"
    /\ pend = <<>>
    /\ pwState = "open"
    /\ pwErr = "nil"
    /\ got = <<>>
    /\ conEnd = "none"
    /\ ctxDone = FALSE
    /\ prClosed = FALSE
    /\ bodyClosed = FALSE

\* case <-ctx.Done(): return ctx.Err(); a read of the body of a cancelled
\* request fails with the same error
DecCancelled ==
    /\ decPc = "read"
    /\ ctxDone
    /\ Become(Returned(Ctl, "canceled", FALSE))
    /\ UNCHANGED <<body, bodyEOF, pwState, pwErr, got, conEnd, ctxDone,
                   prClosed, bodyClosed>>
    /\ DecFrame

\* reader.ReadString fails: if err != nil && err != io.EOF { return err }
DecReadError ==
    /\ decPc = "read"
    /\ ~ctxDone
    /\ Become(Returned(Ctl, "transport", FALSE))
    /\ UNCHANGED <<body, bodyEOF, pwState, pwErr, got, conEnd, ctxDone,
                   prClosed, bodyClosed>>
    /\ DecFrame

\* reader.ReadString returns "" and io.EOF: break
DecReadEOF ==
    /\ decPc = "read"
    /\ ~ctxDone
    /\ bodyEOF' = TRUE
    /\ Become([Ctl EXCEPT !.pc = "tail"])
    /\ UNCHANGED <<body, pwState, pwErr, got, conEnd, ctxDone, prClosed,
                   bodyClosed>>
    /\ DecFrame

\* reader.ReadString returns a line (with io.EOF when the body ends without
\* a newline), and the loop body runs on it
DecReadLine ==
    /\ decPc = "read"
    /\ ~ctxDone
    /\ Len(body) < MaxLines
    /\ \E l \in LinePool, eof \in BOOLEAN :
          /\ eof => l.head # ""
          /\ body' = Append(body, l)
          /\ bodyEOF' = eof
          /\ Become(readLine(Ctl, l, eof))
    /\ UNCHANGED <<pwState, pwErr, got, conEnd, ctxDone, prClosed, bodyClosed>>
    /\ DecFrame

\* handleItem writing the audio of an item before it looks at base_resp
handleItemAudioFirst(c, it, eof) ==
    IF it.audio # <<>> /\ HexOK(it.audio)
    THEN [c EXCEPT !.pc = "write", !.pend = HexDecode(it.audio)]
    ELSE IF it.code # 0 THEN Returned(c, "provider", FALSE)
    ELSE IF it.audio = <<>> THEN AfterItem(c, eof)
    ELSE Returned(c, "hex", FALSE)

\* the body of for _, item := range items up to pw.Write: the base_resp
\* error, hex.DecodeString, the write begun
handleItem(c, it, eof) ==
    IF it.code # 0 THEN Returned(c, "provider", FALSE)
    ELSE IF it.audio = <<>> THEN AfterItem(c, eof)
    ELSE IF ~HexOK(it.audio) THEN Returned(c, "hex", FALSE)
    ELSE [c EXCEPT !.pc = "write", !.pend = HexDecode(it.audio)]

\* the caller's context is cancelled or its deadline passes
CtxCancel ==
    /\ decPc \notin {"idle", "closed"}
    /\ ~ctxDone
    /\ ctxDone' = TRUE
    /\ UNCHANGED <<body, bodyEOF, decPc, dataLines, items, itemIdx, site,
                   streamDone, decErr, pend, pwState, pwErr, got, conEnd,
                   prClosed, bodyClosed>>
    /\ DecFrame

\* one item of the payload: base_resp error, hex.DecodeString, pw.Write begun
DecItem ==
    /\ decPc = "handle"
    /\ Become(handleItem(Ctl, items[itemIdx], bodyEOF))
    /\ UNCHANGED <<body, bodyEOF, pwState, pwErr, got, conEnd, ctxDone,
                   prClosed, bodyClosed>>
    /\ DecFrame

\* pw.Write returns once the reader has taken every byte
DecWriteDone ==
    /\ decPc = "write"
    /\ pend = <<>>
    /\ ~prClosed
    /\ Become(AfterItem(Ctl, bodyEOF))
    /\ UNCHANGED <<body, bodyEOF, pwState, pwErr, got, conEnd, ctxDone,
                   prClosed, bodyClosed>>
    /\ DecFrame

\* pw.Write fails with io.ErrClosedPipe: the read end is closed
DecWriteFail ==
    /\ decPc = "write"
    /\ prClosed
    /\ Become(Returned(Ctl, "closedPipe", FALSE))
    /\ UNCHANGED <<body, bodyEOF, pwState, pwErr, got, conEnd, ctxDone,
                   prClosed, bodyClosed>>
    /\ DecFrame

\* DecTail returning without a look at the lines it has buffered
DecTailDropsBuffered ==
    /\ decPc = "tail"
    /\ Become(Returned(Ctl, "nil", FALSE))
    /\ UNCHANGED <<body, bodyEOF, pwState, pwErr, got, conEnd, ctxDone,
                   prClosed, bodyClosed>>
    /\ DecFrame

\* after the loop: if len(dataLines) > 0 { handleMiniMaxStreamPayload(...) }
DecTail ==
    /\ decPc = "tail"
    /\ Become(IF Len(dataLines) > 0
              THEN handleMiniMaxStreamPayload(Ctl, JoinData(dataLines),
                                              "tail", TRUE)
              ELSE Returned(Ctl, "nil", FALSE))
    /\ UNCHANGED <<body, bodyEOF, pwState, pwErr, got, conEnd, ctxDone,
                   prClosed, bodyClosed>>
    /\ DecFrame

\* the goroutine's end: pw.CloseWithError(err) unless err is nil or
\* context.Canceled, else pw.Close(); deferred resp.Body.Close() and cancel()
DecClose ==
    /\ decPc = "return"
    /\ decPc' = "closed"
    /\ pwState' = "closed"
    /\ pwErr' = IF decErr \in {"nil", "canceled"} THEN "nil" ELSE decErr
    /\ bodyClosed' = TRUE
    /\ ctxDone' = TRUE
    /\ UNCHANGED <<body, bodyEOF, dataLines, items, itemIdx, site, streamDone,
                   decErr, pend, got, conEnd, prClosed>>
    /\ DecFrame

\* the consumer's Read takes bytes of the write in progress
ConRead ==
    /\ pend # <<>>
    /\ ~prClosed
    /\ conEnd = "none"
    /\ \E k \in 1..Len(pend) :
          /\ got' = got \o Take(pend, k)
          /\ pend' = Drop(pend, k)
    /\ UNCHANGED <<body, bodyEOF, decPc, dataLines, items, itemIdx, site,
                   streamDone, decErr, pwState, pwErr, conEnd, ctxDone,
                   prClosed, bodyClosed>>
    /\ DecFrame

\* the consumer's Read on the closed pipe: io.EOF, or the error it was
\* closed with
ConEnd ==
    /\ pwState = "closed"
    /\ ~prClosed
    /\ conEnd = "none"
    /\ conEnd' = IF pwErr = "nil" THEN "eof" ELSE pwErr
    /\ UNCHANGED <<body, bodyEOF, decPc, dataLines, items, itemIdx, site,
                   streamDone, decErr, pend, pwState, pwErr, got, ctxDone,
                   prClosed, bodyClosed>>
    /\ DecFrame

\* cancelReadCloser.Close: c.cancel(); c.PipeReader.Close()
ConClose ==
    /\ ~prClosed
    /\ prClosed' = TRUE
    /\ ctxDone' = TRUE
    /\ UNCHANGED <<body, bodyEOF, decPc, dataLines, items, itemIdx, site,
                   streamDone, decErr, pend, pwState, pwErr, got, conEnd,
                   bodyClosed>>
    /\ DecFrame

(***************************************************************************)
(* Voice metadata cache (cmd/voices_cache.go) and the part of the voices   *)
(* command that uses it.  Times are in hours; a time.Time is its wall      *)
(* clock reading and whether it carries a monotonic reading.  The cache    *)
(* file holds a JSON document: an object is a function from its keys.      *)
(***************************************************************************)
\* longest voice list the provider returns to the voices command
MaxList == 2

\* voiceCacheTTL = 24 * time.Hour
voiceCacheTTL == 24

\* voiceFetchConcurrency = 4
voiceFetchConcurrency == 4

\* the wall clock when the first command starts
Epoch == 2 * voiceCacheTTL

\* time.Now(): a reading with the monotonic clock
TimeNow(h) == [wall |-> h, mono |-> TRUE]

\* now.Sub(t)
Sub(a, b) == a.wall - b.wall

\* map[string]string(nil), and an empty map: len(labels) == 0
NoLabels == <<>>

Voice(id, name, cat, desc, labels, url) ==
    [VoiceID |-> id, Name |-> name, Category |-> cat, Description |-> desc,
     Labels |-> labels, PreviewURL |-> url]

\* the zero elevenlabs.Voice
ZeroVoice == Voice("", "", "", "", NoLabels, "")

\* mergeVoice taking every field of the details, empty or not
mergeVoiceOverwrite(base, details) == details

\* mergeVoice(base, details): a detail field wins when it is not empty
mergeVoice(base, details) ==
    [VoiceID |-> IF details.VoiceID # "" THEN details.VoiceID
                 ELSE base.VoiceID,
     Name |-> IF details.Name # "" THEN details.Name ELSE base.Name,
     Category |-> IF details.Category # "" THEN details.Category
                  ELSE base.Category,
     Description |-> IF details.Description # "" THEN details.Description
                     ELSE base.Description,
     Labels |-> IF DOMAIN details.Labels # {} THEN details.Labels
                ELSE base.Labels,
     PreviewURL |-> IF details.PreviewURL # "" THEN details.PreviewURL
                    ELSE base.PreviewURL]

\* cachedVoice{Voice, UpdatedAt}
CachedVoice(v, t) == [Voice |-> v, UpdatedAt |-> t]

\* newVoiceCache(): version 1 and an empty, non-nil map
newVoiceCache == [Version |-> 1, Voices |-> <<>>, nilMap |-> FALSE]

\* the cache with the entry of id set: cache.Voices[id] = e
PutVoice(c, id, e) ==
    [c EXCEPT !.Voices =
        [k \in DOMAIN c.Voices \cup {id} |->
            IF k = id THEN e ELSE c.Voices[k]]]

\* ---- encoding/json on the cache ----
\* the JSON keys of elevenlabs.Voice; "labels" has omitempty
VoiceKeys(v) ==
    {"voice_id", "name", "category", "preview_url"} \cup
    (IF DOMAIN v.Labels # {} THEN {"labels"} ELSE {})

\* the JSON key of Voice.Description
DescriptionKey == "description"

\* json.Marshal of a Voice
EncodeVoice(v) ==
    [k \in VoiceKeys(v) \cup {DescriptionKey} |->
        CASE k = "voice_id" -> v.VoiceID
          [] k = "name" -> v.Name
          [] k = "category" -> v.Category
          [] k = "labels" -> v.Labels
          [] k = "preview_url" -> v.PreviewURL
          [] OTHER -> v.Description]

\* the string member k of object o, "" when o has none
Member(o, k) == IF k \in DOMAIN o THEN o[k] ELSE ""

\* DecodeVoice looking for the id under "id", a key the document has not
DecodeVoiceWrongTag(o) ==
    Voice(Member(o, "id"), Member(o, "name"), Member(o, "category"),
          Member(o, DescriptionKey),
          IF "labels" \in DOMAIN o THEN o["labels"] ELSE NoLabels,
          Member(o, "preview_url"))

\* json.Unmarshal into a zero Voice
DecodeVoice(o) ==
    Voice(Member(o, "voice_id"), Member(o, "name"), Member(o, "category"),
          Member(o, DescriptionKey),
          IF "labels" \in DOMAIN o THEN o["labels"] ELSE NoLabels,
          Member(o, "preview_url"))

\* time.Time.MarshalJSON: RFC 3339 of the wall clock reading
EncodeTime(t) == t.wall

\* time.Time.UnmarshalJSON: no monotonic reading
DecodeTime(w) == [wall |-> w, mono |-> FALSE]

\* json.MarshalIndent(cache): {"version": .., "voices": {id: {"voice": ..,
\* "updated_at": ..}}}; null tells that "voices" is JSON null
EncodeCache(c) ==
    [version |-> c.Version,
     null |-> c.nilMap,
     voices |-> [id \in DOMAIN c.Voices |->
                  [voice |-> EncodeVoice(c.Voices[id].Voice),
                   updated_at |-> EncodeTime(c.Voices[id].UpdatedAt)]]]

\* json.Unmarshal(data, cache) of a well-formed document
DecodeCache(d) ==
    [Version |-> d.version,
     nilMap |-> d.null,
     Voices |-> [id \in DOMAIN d.voices |->
                  CachedVoice(DecodeVoice(d.voices[id].voice),
                              DecodeTime(d.voices[id].updated_at))]]

\* ---- the cache file ----
FileAbsent == [kind |-> "absent", doc |-> EncodeCache(newVoiceCache)]

\* os.ReadFile fails with an error that is not "does not exist"
FileUnreadable == [kind |-> "unreadable", doc |-> EncodeCache(newVoiceCache)]

\* a file json.Unmarshal rejects after it has decoded the entries of doc
FileCorrupt(d) == [kind |-> "corrupt", doc |-> d]

FileValid(d) == [kind |-> "valid", doc |-> d]

\* loadVoiceCache handing out what json.Unmarshal had decoded when it failed
loadVoiceCacheLeaky(f) ==
    IF f.kind = "absent" THEN [cache |-> newVoiceCache, err |-> "nil"]
    ELSE IF f.kind = "unreadable" THEN [cache |-> newVoiceCache, err |-> "read"]
    ELSE [cache |-> [DecodeCache(f.doc) EXCEPT !.nilMap = FALSE],
          err |-> "nil"]

\* loadVoiceCache(path); with err the cache returned is nil (here a
\* placeholder the caller does not use)
loadVoiceCache(f) ==
    IF f.kind = "absent" THEN [cache |-> newVoiceCache, err |-> "nil"]
    ELSE IF f.kind = "unreadable" THEN [cache |-> newVoiceCache, err |-> "read"]
    ELSE IF f.kind = "corrupt" THEN [cache |-> newVoiceCache, err |-> "nil"]
    ELSE [cache |-> [DecodeCache(f.doc) EXCEPT !.nilMap = FALSE],
          err |-> "nil"]

\* saveVoiceCache(path, cache); how: "ok", "mkdir" (os.MkdirAll fails) or
\* "write" (os.WriteFile fails after it has truncated the file)
saveVoiceCache(f, c, how) ==
    CASE how = "ok" -> [file |-> FileValid(EncodeCache(c)), err |-> "nil"]
      [] how = "mkdir" -> [file |-> f, err |-> "mkdir"]
      [] OTHER -> [file |-> FileCorrupt(EncodeCache(newVoiceCache)),
                   err |-> "write"]

\* ---- the voices the command is run on ----
VoiceIds == {"v1", "v2"}

\* a voice as SearchVoices / ListVoices returns it
ListedVoice(id) == Voice(id, "List", "premade", "", NoLabels, "")

\* what GetVoice answers for id when it succeeds: every detail, or none
DetailsOf(id) ==
    { Voice(id, "Detail", "", "warm", [accent |-> "uk"], "u"), ZeroVoice }

\* an entry of the cache file written TTL - 1 hours before Epoch
EntryFresh(id) ==
    CachedVoice(Voice(id, "Cached", "cloned", "calm", [use |-> "x"], ""),
                [wall |-> Epoch - voiceCacheTTL + 1, mono |-> FALSE])

\* an entry written TTL hours before Epoch
EntryStale(id) ==
    CachedVoice(Voice(id, "Cached", "cloned", "calm", [use |-> "x"], ""),
                [wall |-> Epoch - voiceCacheTTL, mono |-> FALSE])

\* the caches an earlier command may have saved
CachePool ==
    { newVoiceCache,
      PutVoice(newVoiceCache, "v1", EntryFresh("v1")),
      PutVoice(newVoiceCache, "v1", EntryStale("v1")),
      PutVoice(PutVoice(newVoiceCache, "v1", EntryFresh("v1")),
               "v2", EntryStale("v2")) }

FilePool ==
    {FileAbsent, FileUnreadable,
     FileCorrupt(EncodeCache(PutVoice(newVoiceCache, "v1", EntryFresh("v1")))),
     FileValid([EncodeCache(newVoiceCache) EXCEPT !.null = TRUE])} \cup
    {FileValid(EncodeCache(c)) : c \in CachePool}

\* var mu sync.Mutex, unlocked, and no access made yet
NoSync == [holder |-> 0, wRead |-> 0, dRead |-> 0, raced |-> FALSE,
           writes |-> <<>>]

\* the voices command before it is run
CacheIdle ==
    /\ run = "none"
    /\ cmdPc = "idle"
    /\ vopts = "plain"
    /\ clock = Epoch
    /\ cacheFile = FileAbsent
    /\ cacheErr = FALSE
    /\ loadErr = "none"
    /\ saveErr = "none"
    /\ cache = newVoiceCache
    /\ cache0 = newVoiceCache
    /\ list = <<>>
    /\ now = TimeNow(Epoch)
    /\ next = 1
    /\ results = <<>>
    /\ metaCount = 0
    /\ workers = <<>>
    /\ warnings = {}
    /\ listing = <<>>
    /\ cmdErr = "nil"
    /\ prev = [cache |-> newVoiceCache, saved |-> FALSE, fetchedAll |-> FALSE]
    /\ sync = NoSync

\* the voices command starts: vopts is "plain" (no --query, --label, --try),
\* "try" (--try only) or "query" (a query or label filters)
CacheInit ==
    /\ run = "first"
    /\ cmdPc = "list"
    /\ vopts \in {"plain", "try", "query"}
    /\ clock = Epoch
    /\ cacheFile \in FilePool
    /\ cacheErr = FALSE
    /\ loadErr = "none"
    /\ saveErr = "none"
    /\ cache = newVoiceCache
    /\ cache0 = newVoiceCache
    /\ list \in SeqsUpTo({ListedVoice(id) : id \in VoiceIds \cup {""}}, MaxList)
    /\ now = TimeNow(Epoch)
    /\ next = 1
    /\ results = <<>>
    /\ metaCount = 0
    /\ workers = <<>>
    /\ warnings = {}
    /\ listing = <<>>
    /\ cmdErr = "nil"
    /\ prev = [cache |-> newVoiceCache, saved |-> FALSE, fetchedAll |-> FALSE]
    /\ sync = NoSync

\* needsMeta := opts.query != "" || len(labelFilters) > 0 || opts.try
needsMeta == vopts # "plain"

\* client.SearchVoices / client.ListVoices: the command ends on their error
CmdList ==
    /\ cmdPc = "list"
    /\ \E ok \in BOOLEAN :
          IF ~ok THEN /\ cmdErr' = "list"
                      /\ cmdPc' = "done"
                      /\ UNCHANGED results
          ELSE /\ cmdErr' = "nil"
               /\ cmdPc' = IF needsMeta THEN "path" ELSE "print"
               /\ results' = list
    /\ UNCHANGED <<run, vopts, clock, cacheFile, cacheErr, loadErr, saveErr,
                   cache, cache0, list, now, next, metaCount, workers,
                   warnings, listing, prev, sync>>
    /\ CacheFrame

\* cachePath, cacheErr := voiceCachePath(); cache := newVoiceCache()
CmdPath ==
    /\ cmdPc = "path"
    /\ \E ok \in BOOLEAN :
          /\ cacheErr' = ~ok
          /\ warnings' = IF ok THEN warnings
                         ELSE warnings \cup {"voice cache disabled"}
          /\ cmdPc' = IF ok THEN "load" ELSE "call"
    /\ cache' = newVoiceCache
    /\ UNCHANGED <<run, vopts, clock, cacheFile, loadErr, saveErr, cache0,
                   list, now, next, results, metaCount, workers, listing,
                   cmdErr, prev, sync>>
    /\ CacheFrame

\* CmdLoad returning the error of loadVoiceCache
CmdLoadAbort ==
    /\ cmdPc = "load"
    /\ LET r == loadVoiceCache(cacheFile)
       IN  /\ loadErr' = r.err
           /\ IF r.err # "nil"
              THEN /\ cmdErr' = r.err
                   /\ cmdPc' = "done"
                   /\ UNCHANGED cache
              ELSE /\ cache' = r.cache
                   /\ cmdPc' = "call"
                   /\ UNCHANGED cmdErr
    /\ UNCHANGED <<run, vopts, clock, cacheFile, cacheErr, saveErr, cache0,
                   list, now, next, results, metaCount, workers, listing,
                   warnings, prev, sync>>
    /\ CacheFrame

\* if cacheErr == nil { loaded, err := loadVoiceCache(cachePath) ... }
CmdLoad ==
    /\ cmdPc = "load"
    /\ LET r == loadVoiceCache(cacheFile)
       IN  /\ loadErr' = r.err
           /\ IF r.err # "nil"
              THEN /\ warnings' =
                        warnings \cup {"failed to load voice cache"}
                   /\ UNCHANGED cache
              ELSE /\ cache' = r.cache
                   /\ UNCHANGED warnings
    /\ cmdPc' = "call"
    /\ UNCHANGED <<run, vopts, clock, cacheFile, cacheErr, saveErr, cache0,
                   list, now, next, results, metaCount, workers, listing,
                   cmdErr, prev, sync>>
    /\ CacheFrame

\* hydrateVoices is entered: results, now, metaCount, mu, the semaphore
HydStart ==
    /\ cmdPc = "call"
    /\ cmdPc' = "dispatch"
    /\ now' = TimeNow(clock)
    /\ results' = [i \in 1..Len(list) |-> ZeroVoice]
    /\ workers' = [i \in 1..Len(list) |-> "none"]
    /\ next' = 1
    /\ metaCount' = 0
    /\ cache0' = cache
    /\ sync' = [NoSync EXCEPT !.writes = [i \in 1..Len(list) |-> 0]]
    /\ UNCHANGED <<run, vopts, clock, cacheFile, cacheErr, loadErr, saveErr,
                   cache, list, warnings, listing, cmdErr, prev>>
    /\ CacheFrame

\* the ttl hydrateVoices works with: if ttl <= 0 { ttl = voiceCacheTTL }
EffectiveTTL(ttl) == IF ttl <= 0 THEN voiceCacheTTL ELSE ttl

\* IsFresh with entries expiring an hour before the ttl
IsFreshShort(c, id, t) ==
    /\ id \in DOMAIN c.Voices
    /\ Sub(t, c.Voices[id].UpdatedAt) < EffectiveTTL(voiceCacheTTL) - 1

\* cached, ok := cache.Voices[v.VoiceID]; ok && now.Sub(cached.UpdatedAt) < ttl
IsFresh(c, id, t) ==
    /\ id \in DOMAIN c.Voices
    /\ Sub(t, c.Voices[id].UpdatedAt) < EffectiveTTL(voiceCacheTTL)

\* Active counting no goroutine
ActiveNone == {}

\* goroutines of this call that hold a slot of the semaphore
Active == {i \in 1..Len(list) : workers[i] \in {"fetch", "store"}}

\* one turn of for i, v := range voices up to the read of metaCount++ or
\* to sem <- struct{}{}, which blocks while the semaphore is full; the map
\* is read without mu: the Go runtime may end the process (concurrent map
\* read and map write) when a goroutine is writing it
HydDispatch ==
    /\ cmdPc = "dispatch"
    /\ next <= Len(list)
    /\ LET v == list[next]
       IN  IF v.VoiceID = ""
           THEN /\ results' = [results EXCEPT ![next] = v]
                /\ next' = next + 1
                /\ UNCHANGED <<cmdPc, workers, sync>>
           ELSE \/ /\ sync.holder # 0
                   /\ cmdPc' = "crashed"
                   /\ sync' = [sync EXCEPT !.raced = TRUE]
                   /\ UNCHANGED <<results, workers, next>>
                \/ /\ IsFresh(cache, v.VoiceID, now)
                   /\ results' = [results EXCEPT ![next] =
                                 mergeVoice(v, cache.Voices[v.VoiceID].Voice)]
                   /\ cmdPc' = "count"
                   /\ sync' = [sync EXCEPT !.dRead = metaCount,
                                           !.raced = @ \/ sync.holder # 0]
                   /\ UNCHANGED <<workers, next>>
                \/ /\ ~IsFresh(cache, v.VoiceID, now)
                   /\ sync' = [sync EXCEPT !.raced = @ \/ sync.holder # 0]
                   /\ IF Cardinality(Active) < voiceFetchConcurrency
                      THEN /\ workers' = [workers EXCEPT ![next] = "fetch"]
                           /\ next' = next + 1
                           /\ UNCHANGED <<cmdPc, results>>
                      ELSE /\ cmdPc' = "blocked"
                           /\ UNCHANGED <<workers, next, results>>
    /\ UNCHANGED <<run, vopts, clock, cacheFile, cacheErr, loadErr,
                   saveErr, cache, cache0, list, now, metaCount, warnings,
                   listing, cmdErr, prev>>
    /\ CacheFrame

\* sem <- struct{}{} goes through once a slot is free: the goroutine of
\* the voice the loop had looked up is started
HydAcquire ==
    /\ cmdPc = "blocked"
    /\ Cardinality(Active) < voiceFetchConcurrency
    /\ workers' = [workers EXCEPT ![next] = "fetch"]
    /\ next' = next + 1
    /\ cmdPc' = "dispatch"
    /\ UNCHANGED <<run, vopts, clock, cacheFile, cacheErr, loadErr, saveErr,
                   cache, cache0, list, now, results, metaCount, warnings,
                   listing, cmdErr, prev, sync>>
    /\ CacheFrame

\* the write of the loop's metaCount++ (line 106), made without mu
HydCount ==
    /\ cmdPc = "count"
    /\ metaCount' = sync.dRead + 1
    /\ next' = next + 1
    /\ cmdPc' = "dispatch"
    /\ UNCHANGED <<run, vopts, clock, cacheFile, cacheErr, loadErr, saveErr,
                   cache, cache0, list, now, results, workers, warnings,
                   listing, cmdErr, prev, sync>>
    /\ CacheFrame

\* results[index] of a goroutine whose GetVoice failed, were it to fall
\* back on the cache entry
FailedResultCached(voice, c) ==
    IF voice.VoiceID \in DOMAIN c.Voices
    THEN mergeVoice(voice, c.Voices[voice.VoiceID].Voice)
    ELSE voice

\* results[index] = voice of a goroutine whose GetVoice failed
FailedResult(voice, c) == voice

\* a goroutine's client.GetVoice returns: an error (the list's voice is the
\* result, the slot is released) or the details (the merged voice is)
HydFetch ==
    /\ cmdPc # "crashed"
    /\ \E i \in 1..Len(workers) :
          /\ workers[i] = "fetch"
          /\ \/ /\ results' = [results EXCEPT ![i] =
                                   FailedResult(list[i], cache)]
                /\ workers' = [workers EXCEPT ![i] = "failed"]
             \/ \E d \in DetailsOf(list[i].VoiceID) :
                   /\ results' = [results EXCEPT ![i] = mergeVoice(list[i], d)]
                   /\ workers' = [workers EXCEPT ![i] = "store"]
    /\ UNCHANGED <<run, cmdPc, vopts, clock, cacheFile, cacheErr, loadErr,
                   saveErr, cache, cache0, list, now, next, metaCount,
                   warnings, listing, cmdErr, prev, sync>>
    /\ CacheFrame

\* StoredEntry keeping the list's record instead of the merged one
StoredEntryListed(voice, merged, t) == CachedVoice(voice, t)

\* cachedVoice{Voice: merged, UpdatedAt: now}, the entry a goroutine stores
StoredEntry(voice, merged, t) == CachedVoice(merged, t)

\* mu.Lock() of a goroutine; the write of the map entry and the read of
\* its metaCount++ follow
HydLock ==
    /\ cmdPc # "crashed"
    /\ sync.holder = 0
    /\ \E i \in 1..Len(workers) :
          /\ workers[i] = "store"
          /\ sync' = [sync EXCEPT !.holder = i, !.wRead = metaCount]
    /\ UNCHANGED <<run, cmdPc, vopts, clock, cacheFile, cacheErr, loadErr,
                   saveErr, cache, cache0, list, now, next, results,
                   metaCount, workers, warnings, listing, cmdErr, prev>>
    /\ CacheFrame

\* cache.Voices[voice.VoiceID] = cachedVoice{merged, now} and the write of
\* metaCount++ are done; mu.Unlock(), then the deferred <-sem and wg.Done()
HydStore ==
    /\ cmdPc # "crashed"
    /\ sync.holder # 0
    /\ LET i == sync.holder
           e == StoredEntry(list[i], results[i], now)
       IN  /\ cache' = PutVoice(cache, list[i].VoiceID, e)
           /\ workers' = [workers EXCEPT ![i] = "done"]
           /\ sync' = [sync EXCEPT
                          !.holder = 0,
                          !.writes = [@ EXCEPT ![i] = @ + 1]]
    /\ metaCount' = sync.wRead + 1
    /\ UNCHANGED <<run, cmdPc, vopts, clock, cacheFile, cacheErr, loadErr,
                   saveErr, cache0, list, now, next, results, warnings,
                   listing, cmdErr, prev>>
    /\ CacheFrame

\* HydReturn without wg.Wait(): the loop's end is the return
HydReturnNoWait ==
    /\ cmdPc = "dispatch"
    /\ next > Len(list)
    /\ cmdPc' = "save"
    /\ UNCHANGED <<run, vopts, clock, cacheFile, cacheErr, loadErr, saveErr,
                   cache, cache0, list, now, next, results, metaCount,
                   workers, warnings, listing, cmdErr, prev, sync>>
    /\ CacheFrame

\* wg.Wait(); return results, metaCount
HydReturn ==
    /\ cmdPc = "dispatch"
    /\ next > Len(list)
    /\ Active = {}
    /\ cmdPc' = "save"
    /\ UNCHANGED <<run, vopts, clock, cacheFile, cacheErr, loadErr, saveErr,
                   cache, cache0, list, now, next, results, metaCount,
                   workers, warnings, listing, cmdErr, prev, sync>>
    /\ CacheFrame

\* the metadata warning, then if cacheErr == nil { saveVoiceCache(...) }
CmdSave ==
    /\ cmdPc = "save"
    /\ \E how \in {"ok", "mkdir", "write"} :
          LET r == saveVoiceCache(cacheFile, cache, how)
              w == IF metaCount = 0 /\ vopts = "query"
                   THEN warnings \cup {"voice metadata unavailable"}
                   ELSE warnings
          IN  IF cacheErr
              THEN /\ how = "ok"
                   /\ warnings' = w
                   /\ UNCHANGED <<cacheFile, saveErr>>
              ELSE /\ cacheFile' = r.file
                   /\ saveErr' = r.err
                   /\ warnings' = IF r.err = "nil" THEN w
                                  ELSE w \cup {"failed to save voice cache"}
    /\ cmdPc' = "print"
    /\ UNCHANGED <<run, vopts, clock, cacheErr, loadErr, cache, cache0, list,
                   now, next, results, metaCount, workers, listing, cmdErr,
                   prev, sync>>
    /\ CacheFrame

\* the table: "VOICE ID\tNAME\tCATEGORY\n", then a row per voice
CmdPrint ==
    /\ cmdPc = "print"
    /\ listing' = <<"VOICE ID NAME CATEGORY">> \o
                  [i \in 1..Len(results) |->
                      <<results[i].VoiceID, results[i].Name,
                        results[i].Category>>]
    /\ cmdPc' = "done"
    /\ UNCHANGED <<run, vopts, clock, cacheFile, cacheErr, loadErr, saveErr,
                   cache, cache0, list, now, next, results, metaCount,
                   workers, warnings, cmdErr, prev, sync>>
    /\ CacheFrame

\* the same command is run once more on the cache file it has saved, at
\* once or a TTL later
CmdAgain ==
    /\ run = "first"
    /\ cmdPc = "done"
    /\ cmdErr = "nil"
    /\ needsMeta
    /\ saveErr = "nil"
    /\ run' = "second"
    /\ prev' = [cache |-> cache, saved |-> TRUE,
                fetchedAll |->
                    \A i \in 1..Len(workers) : workers[i] # "failed"]
    /\ \E d \in {0, voiceCacheTTL} : clock' = clock + d
    /\ cmdPc' = "list"
    /\ cacheErr' = FALSE
    /\ loadErr' = "none"
    /\ saveErr' = "none"
    /\ cache' = newVoiceCache
    /\ cache0' = newVoiceCache
    /\ next' = 1
    /\ results' = <<>>
    /\ metaCount' = 0
    /\ workers' = <<>>
    /\ warnings' = {}
    /\ listing' = <<>>
    /\ sync' = NoSync
    /\ UNCHANGED <<vopts, cacheFile, list, now, cmdErr>>
    /\ CacheFrame

(***************************************************************************)
(* Label filter and query ranking (cmd/voices_query.go).  A range over a   *)
(* Go map visits its keys in an order that changes from one evaluation to  *)
(* the next: what depends on it is a set of possible outcomes.             *)
(***************************************************************************)
\* longest voice list the filter and the ranking are evaluated on
MaxQ == 2

\* evaluations of the same call that are compared
MaxEvals == 2

\* labelValue(labels, key): the exact key, else the first key of the range
\* whose lower case is key
labelValue(labels, key) ==
    IF key \in DOMAIN labels THEN {[val |-> labels[key], ok |-> TRUE]}
    ELSE LET m == {k \in DOMAIN labels : ToLower(k) = key}
         IN  IF m = {} THEN {[val |-> <<>>, ok |-> FALSE]}
             ELSE {[val |-> labels[k], ok |-> TRUE] : k \in m}

\* matchesAllLabels(voice, filters): the results it can give
matchesAllLabels(voice, filters) ==
    IF Len(filters) = 0 THEN {TRUE}
    ELSE IF DOMAIN voice.Labels = {} THEN {FALSE}
    ELSE LET found(i) == labelValue(voice.Labels, filters[i].key)
         IN  {\A i \in 1..Len(filters) :
                  /\ c[i].ok
                  /\ ToLower(TrimSpace(c[i].val)) = filters[i].value :
              c \in {f \in [1..Len(filters) ->
                               UNION {found(i) : i \in 1..Len(filters)}] :
                        \A i \in 1..Len(filters) : f[i] \in found(i)}}

\* the voices of vs whose flag in keep is set, in the order of vs
RECURSIVE Kept(_, _)
Kept(vs, keep) ==
    IF vs = <<>> THEN <<>>
    ELSE (IF Head(keep) THEN <<Head(vs)>> ELSE <<>>) \o
         Kept(Tail(vs), Tail(keep))

\* filterVoicesByLabels(voices, filters): the lists it can return
filterVoicesByLabels(vs, filters) ==
    IF Len(filters) = 0 THEN {vs}
    ELSE {Kept(vs, keep) :
            keep \in {k \in [1..Len(vs) -> BOOLEAN] :
                        \A i \in 1..Len(vs) :
                            k[i] \in matchesAllLabels(vs[i], filters)}}

\* ---- the voices, filters and queries the functions are evaluated on ----
\* label maps: none; one label; a key in upper case with a padded value in
\* upper case; the key a with another value next to the key A; two keys
\* that differ by case only; two labels
LabelPool ==
    <<  <<>>,
        (<<"a">> :> <<"b">>),
        (<<"A">> :> <<"B", " ">>),
        (<<"a">> :> <<"a">>) @@ (<<"A">> :> <<"b">>),
        (<<"A", "b">> :> <<"b">>) @@ (<<"a", "B">> :> <<"a">>),
        (<<"a">> :> <<"b">>) @@ (<<"b">> :> <<"a">>) >>

QVoicePool ==
    { Voice("q1", <<"a", "b">>, <<>>, <<>>, LabelPool[2], ""),
      Voice("q2", <<"A", "b">>, <<>>, <<>>, LabelPool[3], ""),
      Voice("q3", <<"b">>, <<>>, <<"a", "b">>, LabelPool[4], ""),
      Voice("q4", <<"b", "a">>, <<>>, <<>>, LabelPool[5], ""),
      Voice("q5", <<"b">>, <<"a", "b">>, <<>>, LabelPool[1], ""),
      Voice("q6", <<"B">>, <<>>, <<>>, LabelPool[6], "") }

\* filters as parseLabelFilters returns them: trimmed, in lower case
FilterPool ==
    { [key |-> <<"a">>, value |-> <<"b">>],
      [key |-> <<"a", "b">>, value |-> <<"b">>] }

QueryPool ==
    { <<"a", "b">>, <<"b">>, <<" ", "A", "b", " ">>, <<"b", " ", "b">>,
      <<"a", "a">>, <<" ">> }

\* nothing is being evaluated
QueryIdle ==
    /\ qOp = "none"
    /\ qVoices = <<>>
    /\ qFilters = <<>>
    /\ qQuery = <<>>
    /\ qRuns = <<>>

\* the voices command has its hydrated list, and filters or a query
QueryInit ==
    /\ qOp \in {"filter", "rank"}
    /\ qVoices \in SeqsUpTo(QVoicePool, MaxQ)
    /\ IF qOp = "filter"
       THEN /\ qFilters \in SeqsUpTo(FilterPool, 2)
            /\ qQuery = <<>>
       ELSE /\ qFilters = <<>>
            /\ qQuery \in QueryPool
    /\ qRuns = <<>>

\* voices = filterVoicesByLabels(voices, labelFilters)
QFilter ==
    /\ qOp = "filter"
    /\ Len(qRuns) < MaxEvals
    /\ \E out \in filterVoicesByLabels(qVoices, qFilters) :
          qRuns' = Append(qRuns, [out |-> out, scores |-> <<>>,
                                  order |-> <<>>])
    /\ UNCHANGED <<qOp, qVoices, qFilters, qQuery>>
    /\ QueryFrame

\* unicode.IsLetter(r) || unicode.IsDigit(r)
IsAlnum(c) == c \in {"a", "b", "A", "B"} \cup Digits

\* strings.Fields(s), cur being the field that is open
RECURSIVE Fields(_, _)
Fields(s, cur) ==
    LET done == IF cur = <<>> THEN <<>> ELSE <<cur>>
    IN  IF s = <<>> THEN done
        ELSE IF Head(s) = " " THEN done \o Fields(Tail(s), <<>>)
        ELSE Fields(Tail(s), Append(cur, Head(s)))

\* tokenizeQuery(query)
tokenizeQuery(query) ==
    LET l == ToLower(query)
        b == [i \in 1..Len(l) |-> IF IsAlnum(l[i]) THEN l[i] ELSE " "]
        long(t) == Len(t) >= 2
    IN  SelectSeq(Fields(b, <<>>), long)

\* the text flattenLabels builds when its range visits the keys in order
RECURSIVE Flatten(_, _)
Flatten(labels, order) ==
    IF order = <<>> THEN <<>>
    ELSE LET k == Head(order)
         IN  (IF k = <<>> /\ labels[k] = <<>> THEN <<>>
              ELSE k \o <<":">> \o labels[k] \o <<" ">>) \o
             Flatten(labels, Tail(order))

\* flattenLabels(labels): the texts it can return
flattenLabels(labels) ==
    LET n == Cardinality(DOMAIN labels)
    IN  {Flatten(labels, o) :
            o \in {f \in [1..n -> DOMAIN labels] :
                      \A i, j \in 1..n : f[i] = f[j] => i = j}}

\* the part of the score the tokens from index i on add
RECURSIVE tokenScore(_, _, _, _, _, _)
tokenScore(name, desc, labels, category, tokens, i) ==
    IF i > Len(tokens) THEN 0
    ELSE (IF Contains(name, tokens[i]) THEN 6 ELSE 0) +
         (IF desc # <<>> /\ Contains(desc, tokens[i]) THEN 4 ELSE 0) +
         (IF labels # <<>> /\ Contains(labels, tokens[i]) THEN 3 ELSE 0) +
         (IF category # <<>> /\ Contains(category, tokens[i]) THEN 1 ELSE 0) +
         tokenScore(name, desc, labels, category, tokens, i + 1)

\* scoreVoice(voice, query, tokens): the scores it can give
scoreVoice(voice, query, tokens) ==
    LET name == ToLower(voice.Name)
        desc == ToLower(voice.Description)
        category == ToLower(voice.Category)
        queryLower == ToLower(query)
        whole(labels) ==
            IF queryLower = <<>> THEN 0
            ELSE IF Contains(name, queryLower) THEN 10
            ELSE IF Contains(desc, queryLower) THEN 7
            ELSE IF Contains(labels, queryLower) THEN 5
            ELSE 0
    IN  {whole(ToLower(flat)) +
         tokenScore(name, desc, ToLower(flat), category, tokens, 1) :
            flat \in flattenLabels(voice.Labels)}

\* the byte value of a character
Ord(c) ==
    CASE c = " " -> 32
      [] c = ":" -> 58
      [] c = "A" -> 65
      [] c = "B" -> 66
      [] c = "a" -> 97
      [] c = "b" -> 98
      [] OTHER -> 48

\* s < t on Go strings
RECURSIVE StrLess(_, _)
StrLess(s, t) ==
    IF t = <<>> THEN FALSE
    ELSE IF s = <<>> THEN TRUE
    ELSE IF Head(s) # Head(t) THEN Ord(Head(s)) < Ord(Head(t))
    ELSE StrLess(Tail(s), Tail(t))

\* Less comparing the names as they are written
LessCaseSensitive(a, b) ==
    IF a.score = b.score THEN StrLess(a.voice.Name, b.voice.Name)
    ELSE a.score > b.score

\* the less function of sort.SliceStable in rankVoicesByQuery
Less(a, b) ==
    IF a.score = b.score
    THEN StrLess(ToLower(a.voice.Name), ToLower(b.voice.Name))
    ELSE a.score > b.score

\* sort.SliceStable(scored, Less): each element goes before the first one
\* it is less than
RECURSIVE SortStable(_)
SortStable(scored) ==
    IF scored = <<>> THEN <<>>
    ELSE LET n == Len(scored)
             x == scored[n]
             before == SortStable(Take(scored, n - 1))
             at == IF \E i \in 1..(n - 1) : Less(x, before[i])
                   THEN CHOOSE i \in 1..(n - 1) :
                           /\ Less(x, before[i])
                           /\ \A j \in 1..(i - 1) : ~Less(x, before[j])
                   ELSE n
         IN  Take(before, at - 1) \o <<x>> \o Drop(before, at - 1)

\* rankVoicesByQuery after the scores: the voices of score > 0, sorted;
\* index is the place of the voice in the list given
rankVoicesByQuery(vs, scores) ==
    LET all == [i \in 1..Len(vs) |->
                   [voice |-> vs[i], score |-> scores[i], index |-> i]]
        positive(e) == e.score > 0
    IN  SortStable(SelectSeq(all, positive))

\* voices = rankVoicesByQuery(voices, opts.query)
QRank ==
    /\ qOp = "rank"
    /\ Len(qRuns) < MaxEvals
    /\ LET query == TrimSpace(qQuery)
           tokens == tokenizeQuery(query)
           n == Len(qVoices)
           can == [i \in 1..n |-> scoreVoice(qVoices[i], query, tokens)]
       IN  IF query = <<>>
           THEN qRuns' = Append(qRuns, [out |-> qVoices, scores |-> <<>>,
                                        order |-> <<>>])
           ELSE \E sc \in {f \in [1..n -> UNION {can[i] : i \in 1..n}] :
                               \A i \in 1..n : f[i] \in can[i]} :
                      LET ranked == rankVoicesByQuery(qVoices, sc)
                      IN  qRuns' = Append(qRuns,
                              [out |-> [i \in 1..Len(ranked) |->
                                           ranked[i].voice],
                               scores |-> sc,
                               order |-> [i \in 1..Len(ranked) |->
                                             ranked[i].index]])
    /\ UNCHANGED <<qOp, qVoices, qFilters, qQuery>>
    /\ QueryFrame

\* ---- the list entries and detail entries mergeVoice is evaluated on ----
\* every choice of empty and non-empty fields
MergePool(id, text, labels) ==
    {Voice(i, n, c, d, l, u) :
        i \in {"", id}, n \in {"", text}, c \in {"", text},
        d \in {"", text}, l \in {NoLabels, labels}, u \in {"", text}}

\* a list entry and a detail entry are about to be merged
MergeInit ==
    /\ qOp = "merge"
    /\ \E b \in MergePool("v1", "List", [use |-> "x"]) :
          \E d \in MergePool("v2", "Detail", [accent |-> "uk"]) :
              qVoices = <<b, d>>
    /\ qFilters = <<>>
    /\ qQuery = <<>>
    /\ qRuns = <<>>

\* merged := mergeVoice(voice, details), then the same details merged into
\* what was merged
QMerge ==
    /\ qOp = "merge"
    /\ Len(qRuns) < MaxEvals
    /\ LET base == IF qRuns = <<>> THEN qVoices[1]
                   ELSE qRuns[Len(qRuns)].out[1]
       IN  qRuns' = Append(qRuns,
                       [out |-> <<mergeVoice(base, qVoices[2])>>,
                        scores |-> <<>>, order |-> <<>>])
    /\ UNCHANGED <<qOp, qVoices, qFilters, qQuery>>
    /\ QueryFrame

(***************************************************************************)
(* Audio playback (internal/audio/player.go).  The package variables are   *)
(* shared by every StreamToSpeakers call of the process; getAudioContext   *)
(* runs under audioCtxMu.  A context is 0 (nil) or the number of the       *)
(* oto.NewContext call that returned it.                                   *)
(***************************************************************************)
\* StreamToSpeakers calls the process makes
MaxCalls == 3

\* sample rates mp3 decoders report: none, and two rates
RatePool == {0, 1, 2}

\* getAudioContext recording the rate of the call when the rates differ
getAudioContextRerate(dev, sampleRate, opened) ==
    IF dev.ctx # 0 /\ ~dev.err /\ dev.rate # sampleRate
    THEN [dev |-> [dev EXCEPT !.rate = sampleRate], ctx |-> 0,
          err |-> "mismatch"]
    ELSE IF dev.ctx # 0 THEN [dev |-> dev, ctx |-> dev.ctx, err |-> "nil"]
    ELSE IF sampleRate <= 0 THEN [dev |-> dev, ctx |-> 0, err |-> "invalid"]
    ELSE IF ~opened THEN [dev |-> [dev EXCEPT !.err = TRUE], ctx |-> 0,
                          err |-> "open"]
    ELSE [dev |-> [ctx |-> dev.opens + 1, rate |-> sampleRate, err |-> FALSE,
                   opens |-> dev.opens + 1],
          ctx |-> dev.opens + 1, err |-> "nil"]

\* getAudioContext opening the device whenever the rates differ
getAudioContextReopen(dev, sampleRate, opened) ==
    IF dev.ctx # 0 /\ ~dev.err /\ dev.rate = sampleRate
    THEN [dev |-> dev, ctx |-> dev.ctx, err |-> "nil"]
    ELSE IF sampleRate <= 0 THEN [dev |-> dev, ctx |-> 0, err |-> "invalid"]
    ELSE IF ~opened THEN [dev |-> [dev EXCEPT !.err = TRUE], ctx |-> 0,
                          err |-> "open"]
    ELSE [dev |-> [ctx |-> dev.opens + 1, rate |-> sampleRate, err |-> FALSE,
                   opens |-> dev.opens + 1],
          ctx |-> dev.opens + 1, err |-> "nil"]

\* getAudioContext(sampleRate, ..): the package variables after it, the
\* context and the error it returns; opened tells whether oto.NewContext
\* succeeds if it is called
getAudioContext(dev, sampleRate, opened) ==
    IF dev.ctx # 0
    THEN IF dev.err THEN [dev |-> dev, ctx |-> 0, err |-> "open"]
         ELSE IF dev.rate # sampleRate
         THEN [dev |-> dev, ctx |-> 0, err |-> "mismatch"]
         ELSE [dev |-> dev, ctx |-> dev.ctx, err |-> "nil"]
    ELSE IF sampleRate <= 0 THEN [dev |-> dev, ctx |-> 0, err |-> "invalid"]
    ELSE IF ~opened THEN [dev |-> [dev EXCEPT !.err = TRUE], ctx |-> 0,
                          err |-> "open"]
    ELSE [dev |-> [ctx |-> dev.opens + 1, rate |-> sampleRate, err |-> FALSE,
                   opens |-> dev.opens + 1],
          ctx |-> dev.opens + 1, err |-> "nil"]

\* a call that has not been made: rate is decoder.SampleRate(), seen the
\* package variables getAudioContext found, got the context it returned,
\* plays the player.Play() calls, done whether the caller's ctx is done
NoCall ==
    [pc |-> "idle", rate |-> 0, seen |-> [ctx |-> 0, rate |-> 0], got |-> 0,
     player |-> "none", plays |-> 0, done |-> FALSE, res |-> "none"]

\* no audio has been played
AudioIdle ==
    /\ aDev = [ctx |-> 0, rate |-> 0, err |-> FALSE, opens |-> 0]
    /\ aCalls = <<>>

\* the process starts: the device is not open
AudioInit ==
    /\ aDev = [ctx |-> 0, rate |-> 0, err |-> FALSE, opens |-> 0]
    /\ aCalls = [p \in 1..MaxCalls |-> NoCall]

\* player.Pause() doing nothing
PauseNoop(pl) == pl

\* player.Pause()
Pause(pl) == IF pl = "playing" THEN "paused" ELSE pl

\* decoder, err := mp3.NewDecoder(r)
ADecode(p) ==
    /\ aCalls[p].pc = "idle"
    /\ \/ aCalls' = [aCalls EXCEPT ![p].pc = "returned",
                                    ![p].res = "decode"]
       \/ \E r \in RatePool :
             aCalls' = [aCalls EXCEPT ![p].pc = "context", ![p].rate = r]
    /\ UNCHANGED aDev
    /\ AudioFrame

\* getAudioContext(decoder.SampleRate(), ..), the error return, <-ready
AGetContext(p) ==
    /\ aCalls[p].pc = "context"
    /\ \E opened \in BOOLEAN :
          LET r == getAudioContext(aDev, aCalls[p].rate, opened)
          IN  /\ aDev' = r.dev
              /\ aCalls' =
                    [aCalls EXCEPT
                       ![p].seen = [ctx |-> aDev.ctx, rate |-> aDev.rate],
                       ![p].got = r.ctx,
                       ![p].res = IF r.err = "nil" THEN "none" ELSE r.err,
                       ![p].pc = IF r.err = "nil" THEN "play"
                                 ELSE "returned"]
    /\ AudioFrame

\* player := audioCtx.NewPlayer(decoder); player.Play()
APlay(p) ==
    /\ aCalls[p].pc = "play"
    /\ aCalls' = [aCalls EXCEPT ![p].player = "playing",
                                ![p].plays = @ + 1,
                                ![p].pc = "wait"]
    /\ UNCHANGED aDev
    /\ AudioFrame

\* the player has played the whole stream, or its source has failed
APlayerEnds(p) ==
    /\ aCalls[p].player = "playing"
    /\ aCalls[p].pc # "returned"
    /\ aCalls' = [aCalls EXCEPT ![p].player = "stopped"]
    /\ UNCHANGED aDev
    /\ AudioFrame

\* the caller's context is cancelled or its deadline passes
ACancel(p) ==
    /\ aCalls[p].pc \in {"play", "wait", "select"}
    /\ ~aCalls[p].done
    /\ aCalls' = [aCalls EXCEPT ![p].done = TRUE]
    /\ UNCHANGED aDev
    /\ AudioFrame

\* waitForPlayback: if !player.IsPlaying() { return nil }
AWaitCheck(p) ==
    /\ aCalls[p].pc = "wait"
    /\ aCalls' = IF aCalls[p].player # "playing"
                 THEN [aCalls EXCEPT ![p].pc = "returned", ![p].res = "nil"]
                 ELSE [aCalls EXCEPT ![p].pc = "select"]
    /\ UNCHANGED aDev
    /\ AudioFrame

\* the select of waitForPlayback: ctx.Done() when it is ready, or a tick
AWaitSelect(p) ==
    /\ aCalls[p].pc = "select"
    /\ \/ /\ aCalls[p].done
          /\ aCalls' = [aCalls EXCEPT ![p].player = Pause(@),
                                      ![p].pc = "returned",
                                      ![p].res = "ctx"]
       \/ aCalls' = [aCalls EXCEPT ![p].pc = "wait"]
    /\ UNCHANGED aDev
    /\ AudioFrame

(***************************************************************************)
(* Specifications                                                          *)
(***************************************************************************)
PipeNext ==
    \/ StreamTTS
    \/ OpenOutput
    \/ StartFanOut
    \/ NothingToDo
    \/ StartDirectCopy
    \/ CopyRead
    \/ CopyWriteFile
    \/ CopyWritePipe
    \/ CopyPipeDone
    \/ CopySend
    \/ CopyClose
    \/ DirectCopyReturn
    \/ JoinReturn
    \/ PlayRead
    \/ PlayEOF
    \/ PlayOpen
    \/ PlayReturn
    \/ ConvertTTS
    \/ ConvertWriteFile
    \/ ConvertStartPlay
    \/ ConvertWritePipe
    \/ ConvertPipeDone
    \/ ConvertPlayReturn
    \/ ConvertNothingToDo
    \/ ConvertDone

\* one streamAndPlay or convertAndPlay call, from every option set and source
InitPipe ==
    /\ PipeInit /\ ResIdle /\ DecIdle /\ CacheIdle /\ QueryIdle /\ AudioIdle
    /\ SpeakIdle

SpecPipe == InitPipe /\ [][PipeNext]_vars

\* the calling goroutine, the copy goroutine and the playback consumer are
\* each scheduled whenever they can run
FairSpecPipe == SpecPipe /\ WF_vars(PipeNext)

ResNext ==
    \/ ResolveVoice
    \/ ResolveMiniMaxVoice

\* one resolution call, on every voice list and input of the pools
InitResolve ==
    /\ ResInit /\ PipeIdle /\ DecIdle /\ CacheIdle /\ QueryIdle /\ AudioIdle
    /\ SpeakIdle

SpecResolve == InitResolve /\ [][ResNext]_vars

StreamNext ==
    \/ CtxCancel
    \/ DecCancelled
    \/ DecReadError
    \/ DecReadEOF
    \/ DecReadLine
    \/ DecItem
    \/ DecWriteDone
    \/ DecWriteFail
    \/ DecTail
    \/ DecClose
    \/ ConRead
    \/ ConEnd
    \/ ConClose

\* one MiniMax StreamTTS response, on every body of the line pool
InitStream ==
    /\ DecInit /\ PipeIdle /\ ResIdle /\ CacheIdle /\ QueryIdle /\ AudioIdle
    /\ SpeakIdle

SpecStream == InitStream /\ [][StreamNext]_vars

\* a step of the goroutine StreamTTS starts
DecoderNext ==
    \/ DecCancelled
    \/ DecReadError
    \/ DecReadEOF
    \/ DecReadLine
    \/ DecItem
    \/ DecWriteDone
    \/ DecWriteFail
    \/ DecTail
    \/ DecClose

\* the goroutine runs whenever it can: a read of the body returns, a write
\* to the pipe returns once its bytes are taken or the read end is closed;
\* nothing is said of the consumer, which may stop reading
FairSpecStream == SpecStream /\ WF_vars(DecoderNext)

QueryNext ==
    \/ QFilter
    \/ QRank

\* the label filter or the ranking evaluated MaxEvals times on the same list
InitQuery ==
    /\ QueryInit /\ PipeIdle /\ ResIdle /\ DecIdle /\ CacheIdle /\ AudioIdle
    /\ SpeakIdle

SpecQuery == InitQuery /\ [][QueryNext]_vars

\* mergeVoice on every list entry and detail entry of the pools
InitMerge ==
    /\ MergeInit /\ PipeIdle /\ ResIdle /\ DecIdle /\ CacheIdle /\ AudioIdle
    /\ SpeakIdle

SpecMerge == InitMerge /\ [][QMerge]_vars

\* a step of call p, of its player or of its caller's context
CallNext(p) ==
    \/ ADecode(p)
    \/ AGetContext(p)
    \/ APlay(p)
    \/ APlayerEnds(p)
    \/ ACancel(p)
    \/ AWaitCheck(p)
    \/ AWaitSelect(p)

AudioNext == \E p \in 1..MaxCalls : CallNext(p)

\* MaxCalls calls of StreamToSpeakers, one after the other or interleaved
InitAudio ==
    /\ AudioInit /\ PipeIdle /\ ResIdle /\ DecIdle /\ CacheIdle /\ QueryIdle
    /\ SpeakIdle

SpecAudio == InitAudio /\ [][AudioNext]_vars

\* two calls, each scheduled whenever it can take a step; a select that
\* finds ctx.Done() ready again and again chooses it in the end
FairSpecAudio ==
    /\ InitAudio
    /\ [][CallNext(1) \/ CallNext(2)]_vars
    /\ \A p \in 1..2 :
          /\ WF_vars(ADecode(p) \/ AGetContext(p) \/ APlay(p)
                        \/ AWaitCheck(p) \/ AWaitSelect(p))
          /\ SF_vars(AWaitSelect(p) /\ aCalls'[p].pc = "returned")

VoicesNext ==
    \/ CmdList
    \/ CmdPath
    \/ CmdLoad
    \/ HydStart
    \/ HydDispatch
    \/ HydCount
    \/ HydFetch
    \/ HydLock
    \/ HydStore
    \/ HydReturn
    \/ CmdSave
    \/ CmdPrint
    \/ CmdAgain

\* the voices command run twice, on every cache file and list of the pools
InitVoices ==
    /\ CacheInit /\ PipeIdle /\ ResIdle /\ DecIdle /\ QueryIdle /\ AudioIdle
    /\ SpeakIdle

SpecVoices == InitVoices /\ [][VoicesNext]_vars

\* longest voice list of the calls of hydrateVoices taken by themselves: one
\* more than voiceFetchConcurrency
MaxBurst == 5

\* the cache of the calls taken by themselves: v1 is fresh, v2 is stale
BurstCache ==
    PutVoice(PutVoice(newVoiceCache, "v1", EntryFresh("v1")),
             "v2", EntryStale("v2"))

\* the voices command has loaded BurstCache and is about to call
\* hydrateVoices on a list of up to MaxBurst voices
HydrateInit ==
    /\ run = "first"
    /\ cmdPc = "call"
    /\ vopts = "query"
    /\ clock = Epoch
    /\ cacheFile = FileValid(EncodeCache(BurstCache))
    /\ cacheErr = FALSE
    /\ loadErr = "nil"
    /\ saveErr = "none"
    /\ cache = loadVoiceCache(cacheFile).cache
    /\ cache0 = newVoiceCache
    /\ list \in SeqsUpTo({ListedVoice(id) : id \in VoiceIds}, MaxBurst)
    /\ now = TimeNow(Epoch)
    /\ next = 1
    /\ results = list
    /\ metaCount = 0
    /\ workers = <<>>
    /\ warnings = {}
    /\ listing = <<>>
    /\ cmdErr = "nil"
    /\ prev = [cache |-> newVoiceCache, saved |-> FALSE, fetchedAll |-> FALSE]
    /\ sync = NoSync

\* the steps of one call of hydrateVoices
HydrateNext ==
    \/ HydStart
    \/ HydDispatch
    \/ HydAcquire
    \/ HydCount
    \/ HydFetch
    \/ HydLock
    \/ HydStore
    \/ HydReturn

InitHydrate ==
    /\ HydrateInit /\ PipeIdle /\ ResIdle /\ DecIdle /\ QueryIdle /\ AudioIdle
    /\ SpeakIdle

SpecHydrate == InitHydrate /\ [][HydrateNext]_vars

\* the lists of the calls whose end is checked: every list of up to two
\* voices, and the lists that all need a fetch, with and without a cache
\* hit behind them, up to one voice more than the semaphore has slots
BurstLists ==
    SeqsUpTo({ListedVoice(id) : id \in VoiceIds}, 2) \cup
    UNION {{[i \in 1..k |-> ListedVoice("v2")],
            [i \in 1..k |-> ListedVoice(IF i = k THEN "v1" ELSE "v2")]} :
           k \in 1..(voiceFetchConcurrency + 1)}

InitBurst == InitHydrate /\ list \in BurstLists

\* the loop and the goroutines run whenever they can, and every GetVoice
\* call returns
FairSpecHydrate == InitBurst /\ [][HydrateNext]_vars /\ WF_vars(HydrateNext)

SpeakNext ==
    \/ SpeakStart
    \/ ResolveVoice
    \/ ResolveMiniMaxVoice
    \/ SpeakVoice
    \/ SpeakText
    \/ SpeakBuild
    \/ SpeakSend

\* one run of the speak command, on every command line of the pool
InitSpeak ==
    /\ PipeIdle /\ DecIdle /\ CacheIdle /\ QueryIdle /\ AudioIdle
    /\ SpeakInit

SpecSpeak == InitSpeak /\ [][SpeakNext]_vars

(***************************************************************************)
(* Properties of the tee / playback pipeline                               *)
(***************************************************************************)
\* streamAndPlay has returned from the fan-out (after playToSpeakers)
FanOutReturned ==
    /\ opts.stream
    /\ opts.play
    /\ mainPc = "returned"
    /\ playPc = "done"

\* C1: when streamAndPlay returns without error, the file (if required) and
\* the speaker (if required) each hold exactly the source's bytes, in source
\* order; the speaker sees end-of-stream of a successful copy only after it
\* has received the last source byte.
C1_ExactDelivery ==
    /\ (opts.stream /\ mainPc = "returned" /\ retErr = "nil") =>
          /\ opts.outputPath # "" => file = src
          /\ opts.play => speaker = src
    /\ (opts.stream /\ spkEOF /\ copyRes = "nil") => speaker = src

C1_Witness ==
    /\ opts.stream /\ opts.play /\ opts.outputPath # ""
    /\ mainPc = "returned" /\ retErr = "nil"
    /\ Len(src) >= 2
    /\ spkEOF
    /\ file = src /\ speaker = src

\* C2: with playback requested, streamAndPlay always eventually returns, and
\* by then the copy goroutine and the playback consumer have finished.
C2_AlwaysReturns ==
    (opts.stream /\ opts.play) =>
        <>(/\ mainPc = "returned"
           /\ playPc \in {"idle", "done"}
           /\ copyPc \in {"idle", "done"})

\* C3: with both sinks active, a failed file write does not keep the speaker
\* from receiving the whole source, a failed playback does not keep the file
\* from receiving it, and (convertAndPlay) a failed file write does not keep
\* playback from being attempted.
C3_IndependentSinks ==
    /\ (FanOutReturned /\ opts.outputPath # "" /\ copyRes = "file") =>
          speaker = src
    /\ (FanOutReturned /\ opts.outputPath # "" /\ playRes = "play"
          /\ copyRes = "nil") => file = src
    /\ (~opts.stream /\ opts.play /\ mainPc = "returned"
          /\ retErr \in {"file", "create"}) => playPc # "idle"

\* C4: at the end of the fan-out the copy's error is returned when there is
\* one; the playback error is returned only when the copy ended without error.
C4_CopyErrorFirst ==
    FanOutReturned =>
        /\ copyRes # "nil" => retErr = copyRes
        /\ retErr = "play" => copyRes = "nil"
        /\ copyRes = "nil" => retErr = playRes

C4_Witness ==
    /\ FanOutReturned
    /\ copyRes # "nil"
    /\ playRes = "play"
    /\ retErr = copyRes

\* bytes the copy pushed through the MultiWriter: the bytes the reader of the
\* pipe took, or the bytes the file took when the file stopped the copy
Transferred == IF copyRes = "file" THEN Len(file) ELSE Len(speaker)

\* C5: the count returned from the fan-out is the copy's count, whether the
\* playback and the copy succeeded or failed.
C5_CountIsCopyCount ==
    FanOutReturned =>
        /\ retN = written
        /\ retN = Transferred
        /\ copyRes = "nil" => retN = Len(src)

C5_Witness ==
    /\ FanOutReturned
    /\ playRes = "play"
    /\ copyRes # "nil"
    /\ retN > 0

\* C6: with neither sink requested, streamAndPlay and convertAndPlay fail
\* with the nothing-to-do error before any synthesis request is issued.
C6_NothingToDoFirst ==
    (~opts.play /\ opts.outputPath = "" /\ mainPc = "returned") =>
        /\ retErr = "nothing"
        /\ requests = 0

(***************************************************************************)
(* Properties of the voice resolution                                      *)
(***************************************************************************)
\* the input as the resolution compares it
In == TrimSpace(voiceInput)

ListedIds == {voices[i].VoiceID : i \in 1..Len(voices)}

\* indices of the voices whose name equals s, case-insensitively
NameEquals(s) ==
    {i \in 1..Len(voices) : ToLower(voices[i].Name) = ToLower(s)}

\* indices of the voices whose name contains s, case-insensitively
NameContains(s) ==
    {i \in 1..Len(voices) : Contains(ToLower(voices[i].Name), ToLower(s))}

\* the call resolved to the i-th voice and said so
UsingVoice(i) ==
    /\ voiceID = voices[i].VoiceID
    /\ resErr = NoErr
    /\ notice = [kind |-> "using", name |-> voices[i].Name,
                 id |-> voices[i].VoiceID]

\* a finished resolveVoice call without the literal-id flag, list fetched
ElevenDone ==
    /\ resPc = "done"
    /\ provider = "elevenlabs"
    /\ ~forceID
    /\ listOK

\* C7 as stated: every non-empty id returned is the id of a listed voice.
C7_ReturnedIdIsListed ==
    (resPc = "done" /\ voiceID # <<>>) => voiceID \in ListedIds

\* C7: every non-empty id returned by resolveVoice or resolveMiniMaxVoice is
\* the id of a listed voice or the caller's own trimmed input; the resolution
\* invents no id.
C7_IdListedOrInput ==
    (resPc = "done" /\ voiceID # <<>>) =>
        \/ listOK /\ voiceID \in ListedIds
        \/ voiceID = In

C7_Witness ==
    /\ resPc = "done"
    /\ voiceID \in ListedIds
    /\ voiceID # In
    /\ notice.kind = "using"

\* the input names a voice: it is neither empty (the default voice) nor "?"
\* (the listing), once trimmed
NamesAVoice == In # <<>> /\ In # <<"?">>

\* C8 as stated: an input equal to a listed name, case-insensitively,
\* resolves to the first voice of that name, with a "using voice" notice.
C8_ExactNameWins ==
    (ElevenDone /\ NamesAVoice /\ NameEquals(In) # {}) =>
        \E i \in NameEquals(In) :
            /\ \A j \in NameEquals(In) : i <= j
            /\ UsingVoice(i)

\* C8: an input that names a voice, is not an id-like string with a digit
\* (15 or more characters, no space, a digit), and equals a listed name
\* case-insensitively resolves to the first voice of that name, before any
\* substring match, with a "using voice" notice.
C8_ExactNameWinsUnlessId ==
    (/\ ElevenDone
     /\ NamesAVoice
     /\ ~(looksLikeVoiceID(In) /\ containsDigit(In))
     /\ NameEquals(In) # {}) =>
        \E i \in NameEquals(In) :
            /\ \A j \in NameEquals(In) : i <= j
            /\ UsingVoice(i)

C8_Witness ==
    /\ ElevenDone
    /\ Len(voices) = 2
    /\ NameEquals(In) = {2}
    /\ NameContains(In) = {1, 2}
    /\ voiceInput # voices[2].Name
    /\ UsingVoice(2)

\* C9 as stated: an input that is a strict substring of exactly one listed
\* name resolves to that voice, with a "using voice" notice.
C9_UniqueSubstring ==
    \A i \in 1..Len(voices) :
        (/\ ElevenDone
         /\ NamesAVoice
         /\ NameContains(In) = {i}
         /\ NameEquals(In) = {}) => UsingVoice(i)

\* C9: an input that names a voice, is not id-like (15 or more characters
\* without a space), and is a strict substring of exactly one listed name
\* resolves to that voice, with a "using voice" notice.
C9_UniqueSubstringUnlessId ==
    \A i \in 1..Len(voices) :
        (/\ ElevenDone
         /\ NamesAVoice
         /\ ~looksLikeVoiceID(In)
         /\ NameContains(In) = {i}
         /\ NameEquals(In) = {}) => UsingVoice(i)

C9_Witness ==
    /\ ElevenDone
    /\ Len(voices) = 2
    /\ NameContains(In) = {2}
    /\ NameEquals(In) = {}
    /\ Len(In) >= 1
    /\ UsingVoice(2)

\* the call failed with the voice-not-found error naming s
NotFound(s) ==
    /\ resErr = ErrOf("notFound", s)
    /\ voiceID = <<>>
    /\ notice = NoNotice

\* C10 as stated: an input that is not empty, not "?", not flagged literal
\* and matches no listed name fails with voice-not-found naming the input,
\* with either provider.
C10_NoMatchFails ==
    (/\ resPc = "done" /\ listOK /\ ~forceID
     /\ NamesAVoice
     /\ NameContains(In) = {}) => NotFound(In)

\* C10: for an input that names a voice, is not flagged literal and matches
\* no listed name, resolveVoice fails with voice-not-found naming the input
\* unless the input is id-like; resolveMiniMaxVoice,
\* and resolveVoice on an id-like input, return the trimmed input itself (for
\* MiniMax also the id of a listed voice whose id equals the input
\* case-insensitively).  No call falls back to a voice the input does not
\* match.
C10_NoMatchFailsOrPassesThrough ==
    (/\ resPc = "done" /\ listOK /\ ~forceID
     /\ NamesAVoice
     /\ NameContains(In) = {}) =>
        IF provider = "elevenlabs" /\ ~looksLikeVoiceID(In)
           THEN NotFound(In)
           ELSE /\ resErr = NoErr
                /\ \/ voiceID = In /\ notice = NoNotice
                   \/ /\ provider = "minimax"
                      /\ \E i \in 1..Len(voices) :
                            /\ ToLower(voices[i].VoiceID) = ToLower(In)
                            /\ UsingVoice(i)

C10_Witness ==
    /\ ElevenDone
    /\ Len(voices) >= 1
    /\ Len(In) >= 2
    /\ NameContains(In) = {}
    /\ NotFound(In)
    /\ listCalls = 1

\* C11: an empty or whitespace-only input makes the resolution fetch the voice
\* list and return the id of its first entry with a "defaulting" notice; on an
\* empty list it fails with the no-voices-available error, and when the fetch
\* fails it fails with that error; in both failures no id is returned.
C11_DefaultsToFirst ==
    (resPc = "done" /\ In = <<>>) =>
        /\ listCalls = 1
        /\ table = <<>>
        /\ IF ~listOK
           THEN /\ resErr.kind = "listFailedNoVoice"
                /\ voiceID = <<>>
                /\ notice = NoNotice
           ELSE IF voices = <<>>
           THEN /\ resErr.kind = "noVoices"
                /\ voiceID = <<>>
                /\ notice = NoNotice
           ELSE /\ voiceID = voices[1].VoiceID
                /\ resErr = NoErr
                /\ notice = [kind |-> "defaulting", name |-> voices[1].Name,
                             id |-> voices[1].VoiceID]

C11_Witness ==
    /\ resPc = "done"
    /\ voiceInput = <<" ">>
    /\ listOK
    /\ Len(voices) = 2
    /\ voiceID = voices[1].VoiceID
    /\ notice.kind = "defaulting"

\* C12: the input "?" makes the resolution fetch the voice list, print the
\* header and one row per listed voice, in list order, and return the empty
\* id with no error, whether or not the literal-id flag is set; when the fetch
\* fails the call fails and prints nothing.
C12_ListingSentinel ==
    (resPc = "done" /\ In = <<"?">>) =>
        /\ listCalls = 1
        /\ voiceID = <<>>
        /\ notice = NoNotice
        /\ IF ~listOK
           THEN resErr.kind = "listFailed" /\ table = <<>>
           ELSE /\ resErr = NoErr
                /\ Len(table) = Len(voices) + 1
                /\ \A i \in 1..Len(voices) :
                      /\ table[i + 1][1] = voices[i].VoiceID
                      /\ table[i + 1][2] = voices[i].Name
                      /\ table[i + 1][3] = voices[i].Category

C12_Witness ==
    /\ resPc = "done"
    /\ forceID
    /\ In = <<"?">>
    /\ listOK
    /\ Len(voices) = 2
    /\ Len(table) = 3
    /\ voiceID = <<>>
    /\ resErr = NoErr

\* the call returned its trimmed input as the id, without a request
ReturnedDirectly ==
    /\ voiceID = In
    /\ resErr = NoErr
    /\ notice = NoNotice
    /\ table = <<>>
    /\ listCalls = 0

\* C13: with the literal-id flag set and an input that names a voice (neither
\* empty nor "?"), resolveVoice and resolveMiniMaxVoice return the input as it
\* was given (trimmed, in its own case) and issue no list-voices request.
C13_LiteralIdUnchanged ==
    (resPc = "done" /\ forceID /\ NamesAVoice) => ReturnedDirectly

C13_Witness ==
    /\ resPc = "done"
    /\ forceID
    /\ NamesAVoice
    /\ In # ToLower(In)
    /\ NameEquals(In) # {}
    /\ voiceID = In
    /\ listCalls = 0

NoSpace(s) == \A i \in 1..Len(s) : s[i] # " "

HasDigit(s) == \E i \in 1..Len(s) : s[i] \in Digits

\* a finished resolveVoice call without the literal-id flag
ElevenUnflagged ==
    /\ resPc = "done"
    /\ provider = "elevenlabs"
    /\ ~forceID

\* C14 as stated: every input of 15 or more characters with a digit is
\* returned directly, without a list-voices request.
C14_LongWithDigitDirect ==
    (ElevenUnflagged /\ Len(In) >= IDMinLen /\ HasDigit(In)) =>
        ReturnedDirectly

\* C14: every input of 15 or more characters that has no space and at least
\* one digit is returned directly by resolveVoice, without a list-voices
\* request.
C14_IdWithDigitDirect ==
    (ElevenUnflagged /\ Len(In) >= IDMinLen /\ NoSpace(In) /\ HasDigit(In)) =>
        ReturnedDirectly

C14_Witness ==
    /\ ElevenUnflagged
    /\ Len(In) = IDMinLen
    /\ NoSpace(In)
    /\ HasDigit(In)
    /\ NameEquals(In) # {}
    /\ voiceID = In
    /\ listCalls = 0

\* C15: an id-like input (15 or more characters, no space) without a digit
\* always makes resolveVoice fetch the list; with the list fetched, an input
\* equal to a listed name case-insensitively resolves to the first voice of
\* that name, and any other input is returned itself with no error.
C15_IdLikeNoDigit ==
    (ElevenUnflagged /\ Len(In) >= IDMinLen /\ NoSpace(In) /\ ~HasDigit(In)) =>
        /\ listCalls = 1
        /\ listOK =>
              IF NameEquals(In) # {}
              THEN \E i \in NameEquals(In) :
                      /\ \A j \in NameEquals(In) : i <= j
                      /\ UsingVoice(i)
              ELSE /\ voiceID = In
                   /\ resErr = NoErr
                   /\ notice = NoNotice

C15_Witness ==
    /\ ElevenUnflagged
    /\ listOK
    /\ Len(In) >= IDMinLen
    /\ NoSpace(In)
    /\ ~HasDigit(In)
    /\ NameEquals(In) = {}
    /\ NameContains(In) # {}
    /\ voiceID = In
    /\ resErr = NoErr
    /\ listCalls = 1

(***************************************************************************)
(* Properties of the MiniMax event-stream decoder                          *)
(***************************************************************************)
\* the items of the body's payloads in the order the events end: a run of
\* "data:" lines ends at the blank line after it or at the end of the body,
\* a bare JSON line is an event of its own
RECURSIVE Dispatched(_, _)
Dispatched(lines, held) ==
    IF lines = <<>> THEN JoinData(held).items
    ELSE LET l == Head(lines)
         IN  CASE LineKind(l) = "blank" ->
                     JoinData(held).items \o Dispatched(Tail(lines), <<>>)
               [] LineKind(l) = "data" ->
                     Dispatched(Tail(lines), Append(held, l.payload))
               [] LineKind(l) = "json" ->
                     l.payload.items \o Dispatched(Tail(lines), held)
               [] OTHER -> Dispatched(Tail(lines), held)

\* indices of the items whose status is the final one
Finals(its) == {i \in 1..Len(its) : its[i].status = StatusFinal}

\* the items up to and including the first final one
UpToFinal(its) ==
    IF Finals(its) = {} THEN its ELSE Take(its, First(Finals(its)))

\* the bytes the hexadecimal strings of the pool stand for
KnownBytes(h) ==
    CASE h = HelloHex -> <<72, 101, 108, 108, 111>>
      [] h = BangHex -> <<33>>
      [] OTHER -> <<>>

RECURSIVE AudioOf(_)
AudioOf(its) ==
    IF its = <<>> THEN <<>>
    ELSE KnownBytes(Head(its).audio) \o AudioOf(Tail(its))

IsPrefix(s, t) == Len(s) <= Len(t) /\ Take(t, Len(s)) = s

\* C16: when the body holds an event of final status, the decoder never
\* forwards audio of a later event; once it has processed the final event it
\* has stopped, the consumer has received exactly the decoded fragments up to
\* and including the final one, and the pipe is closed without error, so the
\* consumer's stream ends with a clean end-of-stream.
C16_StopsAtFinal ==
    LET flat == Dispatched(body, <<>>)
        want == AudioOf(UpToFinal(flat))
    IN  Finals(flat) # {} =>
            /\ IsPrefix(got \o pend, want)
            /\ streamDone => decPc \in {"return", "closed"}
            /\ (decPc \in {"return", "closed"} /\ decErr = "nil") =>
                  /\ streamDone
                  /\ got = want
                  /\ pend = <<>>
            /\ (decPc = "closed" /\ decErr = "nil") =>
                  /\ pwErr = "nil"
                  /\ conEnd \in {"none", "eof"}

C16_Witness ==
    /\ body = << Line("data:", Obj(Item(HelloHex, 1, 0))), Line("", NoPayload),
                 Line("data:", Obj(Item(<<>>, StatusFinal, 0))) >>
    /\ streamDone
    /\ decPc = "closed"
    /\ got = <<72, 101, 108, 108, 111>>
    /\ conEnd = "eof"

(***************************************************************************)
(* Properties of the voice cache and the voices command                    *)
(***************************************************************************)
\* hydrateVoices has been entered by the command that is running
Hydrated ==
    /\ needsMeta
    /\ cmdErr = "nil"
    /\ cmdPc \in {"dispatch", "count", "blocked", "crashed", "save", "print",
                 "done"}

\* c holds an entry of id written less than voiceCacheTTL hours before t
Younger(c, id, t) ==
    /\ id \in DOMAIN c.Voices
    /\ t.wall - c.Voices[id].UpdatedAt.wall < voiceCacheTTL

\* no goroutine was started for the voice at index i: no GetVoice call
NotFetched(i) == workers[i] = "none"

\* the command runs again at once after a first run that fetched every
\* voice it asked for and saved its cache, and it has loaded that cache
SecondAfterSuccess ==
    /\ run = "second"
    /\ prev.saved
    /\ prev.fetchedAll
    /\ clock = Epoch
    /\ ~cacheErr
    /\ loadErr = "nil"

\* C17: hydrateVoices starts no detail fetch for a voice whose id has an
\* entry younger than the TTL in the cache it is given; when every voice of
\* the list has one, no GetVoice call is made and the cache is left as it
\* was; a hydrate right after a first one whose fetches all succeeded starts
\* no fetch
C17_FreshNotFetched ==
    Hydrated =>
        /\ \A i \in 1..Len(list) :
              Younger(cache0, list[i].VoiceID, now) => NotFetched(i)
        /\ (\A i \in 1..Len(list) : Younger(cache0, list[i].VoiceID, now))
              => /\ \A i \in 1..Len(list) : NotFetched(i)
                 /\ cache = cache0
        /\ SecondAfterSuccess => \A i \in 1..Len(list) : NotFetched(i)

\* the second run has ended without a fetch on the cache the first run
\* filled by fetching v2
C17_Witness ==
    /\ Hydrated
    /\ SecondAfterSuccess
    /\ cmdPc = "done"
    /\ Len(list) = 2
    /\ list[1].VoiceID = "v1"
    /\ list[2].VoiceID = "v2"
    /\ Younger(cache0, "v1", now)
    /\ Younger(cache0, "v2", now)
    /\ cache0.Voices["v2"].UpdatedAt.wall = Epoch
    /\ cache0.Voices["v1"].UpdatedAt.wall = Epoch - voiceCacheTTL + 1
    /\ workers = <<"none", "none">>
    /\ metaCount = 2
    /\ cache = cache0

\* C18: loadVoiceCache returns an empty cache with a non-nil map and no
\* error when the file does not exist and when its contents do not
\* deserialize; nothing of a corrupt file that was decoded in part is in it
C18_LoadColdOnMissingOrCorrupt ==
    (/\ cmdPc = "call"
     /\ loadErr # "none"
     /\ cacheFile.kind \in {"absent", "corrupt"})
        => /\ loadErr = "nil"
           /\ DOMAIN cache.Voices = {}
           /\ ~cache.nilMap
           /\ cache = newVoiceCache
           /\ "failed to load voice cache" \notin warnings

\* a corrupt file whose entry of v1 could be decoded has been loaded
C18_Witness ==
    /\ cmdPc = "call"
    /\ loadErr = "nil"
    /\ cacheFile.kind = "corrupt"
    /\ DOMAIN cacheFile.doc.voices = {"v1"}
    /\ Len(list) > 0
    /\ list[1].VoiceID = "v1"
    /\ cache = newVoiceCache

\* the row of the table for voice v
Row(v) == <<v.VoiceID, v.Name, v.Category>>

\* what hydrateVoices can return for list[i] when the cache it is given is
\* empty: the list's record, or the record merged with fetched details
ColdResults(i) ==
    IF list[i].VoiceID = "" THEN {list[i]}
    ELSE {list[i]} \cup
         {mergeVoice(list[i], d) : d \in DetailsOf(list[i].VoiceID)}

\* the table printed is one the command prints when the cache is empty
ColdListing ==
    /\ Len(listing) = Len(list) + 1
    /\ listing[1] = "VOICE ID NAME CATEGORY"
    /\ \A i \in 1..Len(list) :
          listing[i + 1] \in {Row(v) : v \in ColdResults(i)}

PathFailed == cacheErr

LoadFailed == loadErr \notin {"none", "nil"}

SaveFailed == saveErr \notin {"none", "nil"}

\* each cache failure of this run has its warning on the error stream
FailuresWarned ==
    /\ PathFailed => "voice cache disabled" \in warnings
    /\ LoadFailed => "failed to load voice cache" \in warnings
    /\ SaveFailed => "failed to save voice cache" \in warnings

\* the command has ended, the list call had succeeded
Ended == cmdPc = "done" /\ cmdErr # "list"

LoadedBack ==
    /\ run = "second"
    /\ cmdPc = "call"
    /\ prev.saved
    /\ loadErr = "nil"

\* C20: a non-empty cache written by saveVoiceCache and read by
\* loadVoiceCache from the same path has the same voice ids, each with the
\* same voice fields; UpdatedAt is not compared
C20_SaveLoadRoundTrip ==
    (LoadedBack /\ DOMAIN prev.cache.Voices # {})
        => /\ DOMAIN cache.Voices = DOMAIN prev.cache.Voices
           /\ \A id \in DOMAIN cache.Voices :
                 cache.Voices[id].Voice = prev.cache.Voices[id].Voice

\* a cache of a loaded entry and a fetched one, with a description and
\* labels, has come back; the fetched entry has lost its monotonic reading
C20_Witness ==
    /\ LoadedBack
    /\ DOMAIN cache.Voices = {"v1", "v2"}
    /\ cache.Voices["v1"].Voice.Name = "Cached"
    /\ cache.Voices["v2"].Voice =
          Voice("v2", "Detail", "premade", "warm", [accent |-> "uk"], "u")
    /\ prev.cache.Voices["v2"].UpdatedAt.mono
    /\ ~cache.Voices["v2"].UpdatedAt.mono

(***************************************************************************)
(* Properties of the label filter and of the ranking                       *)
(***************************************************************************)
\* one of the voice's labels satisfies the filter: its key is the filter's
\* without regard to case, its value the filter's once trimmed and lowered
Satisfied(v, f) ==
    \E k \in DOMAIN v.Labels :
        /\ ToLower(k) = f.key
        /\ ToLower(TrimSpace(v.Labels[k])) = f.value

\* the voices every filter is satisfied for, in the order of the list
Matching(vs, fs) ==
    Kept(vs, [i \in 1..Len(vs) |->
                 \A j \in 1..Len(fs) : Satisfied(vs[i], fs[j])])

\* C21: filterVoicesByLabels returns, in input order, exactly the voices
\* for which every filter is satisfied by one of the voice's labels, and
\* returns the same list on every evaluation
C21_FilterExactAndStable ==
    qOp = "filter" =>
        /\ \A r \in 1..Len(qRuns) :
              qRuns[r].out = Matching(qVoices, qFilters)
        /\ \A r, t \in 1..Len(qRuns) : qRuns[r].out = qRuns[t].out

\* the ranking was evaluated on a query that is not blank
Ranked(r) ==
    /\ qOp = "rank"
    /\ TrimSpace(qQuery) # <<>>
    /\ r \in 1..Len(qRuns)

\* C22: for a query that is not blank, rankVoicesByQuery returns the voices
\* whose score is greater than 0, all of them and no other, by descending
\* score, voices of equal score by ascending lower-cased name
C22_RankedByScoreThenName ==
    \A r \in 1..MaxEvals :
        Ranked(r) =>
            LET ev == qRuns[r]
                m == Len(ev.order)
            IN  /\ Len(ev.out) = m
                /\ \A j \in 1..m : ev.out[j] = qVoices[ev.order[j]]
                /\ \A j, k \in 1..m : ev.order[j] = ev.order[k] => j = k
                /\ {ev.order[j] : j \in 1..m} =
                      {i \in 1..Len(qVoices) : ev.scores[i] > 0}
                /\ \A j, k \in 1..m :
                      j < k =>
                        LET a == ev.order[j]
                            b == ev.order[k]
                        IN  /\ ev.scores[a] >= ev.scores[b]
                            /\ ev.scores[a] = ev.scores[b] =>
                                  ~StrLess(ToLower(qVoices[b].Name),
                                           ToLower(qVoices[a].Name))

\* the query b on q6 (name B) and q1 (name ab): both score 10 and q1, the
\* second of the list, comes first
C22_Witness ==
    /\ Ranked(1)
    /\ qQuery = <<"b">>
    /\ Len(qVoices) = 2
    /\ qVoices[1].VoiceID = "q6"
    /\ qVoices[2].VoiceID = "q1"
    /\ qRuns[1].scores = <<10, 10>>
    /\ qRuns[1].order = <<2, 1>>
    /\ qRuns[1].out = <<qVoices[2], qVoices[1]>>

(***************************************************************************)
(* Properties of audio playback                                            *)
(***************************************************************************)
\* getAudioContext has returned in call p
AskedContext(p) ==
    /\ aCalls[p].pc \in {"play", "wait", "select", "returned"}
    /\ aCalls[p].res # "decode"

\* call p was given a context
GotContext(p) == AskedContext(p) /\ aCalls[p].res \in {"none", "nil", "ctx"}

\* C23: over all StreamToSpeakers calls of a process, one after the other
\* or interleaved, the device is opened at most once, its rate is the
\* rate of the stream of the call that opened it, and every later call of
\* that rate is given the context that was opened then, not a new one
C23_OpenedOnceAndReused ==
    /\ aDev.opens <= 1
    /\ aDev.ctx = aDev.opens
    /\ \A p \in 1..MaxCalls :
          GotContext(p) => /\ aCalls[p].got = 1
                           /\ aCalls[p].got = aDev.ctx
                           /\ aCalls[p].rate = aDev.rate
    /\ \A p \in 1..MaxCalls :
          (AskedContext(p) /\ aCalls[p].seen.ctx # 0
              /\ aCalls[p].rate = aCalls[p].seen.rate)
            => GotContext(p) /\ aCalls[p].got = aCalls[p].seen.ctx
    /\ aDev.ctx # 0 =>
          \E p \in 1..MaxCalls :
              /\ GotContext(p)
              /\ aCalls[p].seen.ctx = 0
              /\ aCalls[p].rate = aDev.rate

\* call 1 opened the device at rate 1 and has ended; call 2, of rate 1 too,
\* found it open and is playing on the same context
C23_Witness ==
    /\ aDev.opens = 1
    /\ aCalls[1].pc = "returned"
    /\ aCalls[1].res = "nil"
    /\ aCalls[1].seen.ctx = 0
    /\ aCalls[1].rate = 1
    /\ aCalls[2].pc = "wait"
    /\ aCalls[2].rate = 1
    /\ aCalls[2].seen.ctx = 1
    /\ aCalls[2].got = 1
    /\ aCalls[2].player = "playing"

\* C24: a call whose stream has another rate than the open device fails
\* with an error and starts no playback; the context and the recorded rate
\* stay as they were, and calls of the device's rate are still served
C24_MismatchLeavesDevice ==
    \A p \in 1..MaxCalls :
        /\ (AskedContext(p) /\ aCalls[p].seen.ctx # 0
               /\ aCalls[p].rate # aCalls[p].seen.rate)
             => /\ aCalls[p].pc = "returned"
                /\ aCalls[p].res = "mismatch"
                /\ aCalls[p].got = 0
                /\ aCalls[p].player = "none"
                /\ aCalls[p].plays = 0
                /\ aDev.ctx = aCalls[p].seen.ctx
                /\ aDev.rate = aCalls[p].seen.rate
                /\ ~aDev.err
                /\ \A q \in 1..MaxCalls :
                      (AskedContext(q) /\ aCalls[q].seen.ctx # 0
                          /\ aCalls[q].rate = aCalls[p].seen.rate)
                        => /\ aCalls[q].res \in {"none", "nil", "ctx"}
                           /\ aCalls[q].got = aCalls[p].seen.ctx
        /\ aCalls[p].res = "mismatch" =>
              /\ aCalls[p].seen.ctx # 0
              /\ aCalls[p].rate # aCalls[p].seen.rate

\* call 1 opened the device at rate 1, call 2 of rate 2 failed on the
\* mismatch, call 3 of rate 1 has played to the end
C24_Witness ==
    /\ aCalls[1].seen.ctx = 0
    /\ aCalls[1].rate = 1
    /\ aCalls[1].res = "nil"
    /\ aCalls[2].rate = 2
    /\ aCalls[2].res = "mismatch"
    /\ aCalls[2].pc = "returned"
    /\ aCalls[3].rate = 1
    /\ aCalls[3].seen.ctx = 1
    /\ aCalls[3].res = "nil"
    /\ aCalls[3].pc = "returned"
    /\ aDev.rate = 1

\* what holds of call p at each moment as to its player and its result
AfterPlayback(p) ==
    LET c == aCalls[p]
    IN  /\ c.plays <= 1
        /\ c.pc = "returned" => c.player # "playing"
        /\ (c.pc = "returned" /\ c.res = "nil") => c.player = "stopped"
        /\ (c.pc = "returned" /\ c.res = "ctx")
              => c.done /\ c.player \in {"paused", "stopped"}
        /\ c.player = "paused" => c.pc = "returned" /\ c.res = "ctx"

\* C25: a call whose context is done while its player plays ends: with the
\* player paused and the context's error, or, the player having stopped by
\* itself before the select took ctx.Done(), with nil; a paused player is
\* not played again (Play is called once) and nil is returned only for a
\* player that has stopped
C25_CancelPausesAndReturns ==
    /\ [](\A p \in 1..MaxCalls : AfterPlayback(p))
    /\ \A p \in 1..2 :
          (aCalls[p].done /\ aCalls[p].player = "playing")
             ~> (aCalls[p].pc = "returned")

\* call 1 was cancelled while its player played: the player is paused and
\* the call has returned the context's error
C25_Witness ==
    /\ aCalls[1].pc = "returned"
    /\ aCalls[1].res = "ctx"
    /\ aCalls[1].done
    /\ aCalls[1].player = "paused"
    /\ aCalls[1].plays = 1

(***************************************************************************)
(* Properties of the goroutines of hydrateVoices                           *)
(***************************************************************************)
\* C26: every access hydrateVoices makes to the cache map and to the counter
\* is synchronised: the loop does not read the map while a goroutine is in
\* its critical section, and no goroutine is in its critical section
\* between the read and the write of the loop's metaCount++
C26_AccessesSynchronized ==
    /\ ~sync.raced
    /\ cmdPc = "count" => sync.holder = 0

\* the goroutines whose client.GetVoice call has not returned
InFlight == {i \in 1..Len(workers) : workers[i] = "fetch"}

\* C27: at every moment of hydrateVoices at most voiceFetchConcurrency = 4
\* GetVoice calls are in flight, whatever the length of the list and the
\* order in which the calls return; no goroutine runs for a voice the loop
\* has not come to
C27_AtMostFourInFlight ==
    /\ voiceFetchConcurrency = 4
    /\ Cardinality(InFlight) <= voiceFetchConcurrency
    /\ \A i \in 1..Len(workers) : i >= next => workers[i] = "none"

\* four calls are in flight and the loop waits for a slot with the fifth
\* voice, which needs a fetch too
C27_Witness ==
    /\ Len(list) = 5
    /\ \A i \in 1..5 : list[i].VoiceID = "v2"
    /\ Cardinality(InFlight) = 4
    /\ cmdPc = "blocked"
    /\ next = 5
    /\ workers[5] = "none"

\* hydrateVoices has returned to the command
HydReturned == Hydrated /\ cmdPc \in {"save", "print", "done"}

\* the voices returned with metadata: served from a cache entry the loop
\* found fresh, or fetched with success
Carried ==
    {i \in 1..Len(list) :
        list[i].VoiceID # "" /\ workers[i] \in {"none", "done"}}

\* C29: the count hydrateVoices returns is the number of voices served from
\* a fresh cache entry plus the number of voices whose fetch succeeded,
\* however the cache hits and the ends of the goroutines interleave
C29_CountIsHitsPlusFetched ==
    HydReturned => metaCount = Cardinality(Carried)

\* the records a cache hit on id can have merged into the list's voice: the
\* entry the call was given, or one a goroutine of the call has stored
HitRecords(id) ==
    (IF id \in DOMAIN cache0.Voices THEN {cache0.Voices[id].Voice} ELSE {}) \cup
    {results[j] : j \in {k \in 1..Len(list) :
                            list[k].VoiceID = id /\ workers[k] = "done"}}

\* C28: hydrateVoices returns one entry per voice of the list, at the
\* voice's position; a voice whose fetch failed is returned as the list's
\* record, whatever the cache holds for it, and its goroutine wrote no
\* cache entry; the other voices are returned as they are without the
\* failure: a voice without id as listed, a fetched voice merged with the
\* details, a cache hit merged with the entry; when no fetch succeeded the
\* cache is as it was
C28_FailedFetchKeepsListRecord ==
    HydReturned =>
        /\ Len(results) = Len(list)
        /\ \A i \in 1..Len(list) :
              /\ workers[i] \in {"none", "failed", "done"}
              /\ workers[i] = "failed" =>
                    /\ results[i] = list[i]
                    /\ sync.writes[i] = 0
              /\ list[i].VoiceID = "" =>
                    /\ results[i] = list[i]
                    /\ workers[i] = "none"
              /\ workers[i] = "done" =>
                    \E d \in DetailsOf(list[i].VoiceID) :
                        results[i] = mergeVoice(list[i], d)
              /\ (workers[i] = "none" /\ list[i].VoiceID # "") =>
                    \E r \in HitRecords(list[i].VoiceID) :
                        results[i] = mergeVoice(list[i], r)
        /\ (\A i \in 1..Len(list) : workers[i] # "done") => cache = cache0

\* of two voices v2 with a stale cache entry the fetch of the first failed
\* and the fetch of the second brought the details
C28_Witness ==
    /\ HydReturned
    /\ Len(list) = 2
    /\ list[1].VoiceID = "v2"
    /\ list[2].VoiceID = "v2"
    /\ "v2" \in DOMAIN cache0.Voices
    /\ cache0.Voices["v2"].Voice.Name = "Cached"
    /\ workers = <<"failed", "done">>
    /\ results[1] = list[1]
    /\ results[2].Name = "Detail"
    /\ results[2].Description = "warm"
    /\ cache.Voices["v2"].UpdatedAt = now

\* the goroutines of the call whose fetch of id succeeded
FetchedOk(id) ==
    {i \in 1..Len(list) : list[i].VoiceID = id /\ workers[i] = "done"}

\* the writes of cache.Voices[id] the goroutines at the indices up to n made
RECURSIVE WritesTo(_, _)
WritesTo(id, n) ==
    IF n = 0 THEN 0
    ELSE WritesTo(id, n - 1) +
         (IF list[n].VoiceID = id THEN sync.writes[n] ELSE 0)

\* the ids of the list and of the cache
KnownIds ==
    {list[i].VoiceID : i \in 1..Len(list)} \cup DOMAIN cache.Voices
        \cup DOMAIN cache0.Voices

\* C30 as stated: in one call of hydrateVoices the cache entry of each id
\* fetched with success is written exactly once, and the entry of an id
\* not fetched with success is not written
C30_WrittenOncePerId ==
    HydReturned =>
        \A id \in KnownIds :
            WritesTo(id, Len(list)) = IF FetchedOk(id) # {} THEN 1 ELSE 0

\* C30, amended: in one call of hydrateVoices the cache entry of an id is
\* written exactly once for each fetch of it that succeeded, each time with
\* the merged record of that fetch and the call's timestamp, and is not
\* written when no fetch of it succeeded: the entry then is what it was
C30_WrittenOncePerFetch ==
    HydReturned =>
        /\ \A i \in 1..Len(list) :
              sync.writes[i] = IF workers[i] = "done" THEN 1 ELSE 0
        /\ \A id \in KnownIds :
              /\ WritesTo(id, Len(list)) = Cardinality(FetchedOk(id))
              /\ IF FetchedOk(id) # {}
                 THEN /\ id \in DOMAIN cache.Voices
                      /\ \E i \in FetchedOk(id) :
                            /\ cache.Voices[id].Voice = results[i]
                            /\ cache.Voices[id].UpdatedAt = now
                      /\ \A i \in FetchedOk(id) :
                            \E d \in DetailsOf(id) :
                                results[i] = mergeVoice(list[i], d)
                 ELSE /\ id \in DOMAIN cache.Voices <=>
                            id \in DOMAIN cache0.Voices
                      /\ id \in DOMAIN cache0.Voices =>
                            cache.Voices[id] = cache0.Voices[id]

\* v1 was fetched once with its details and v2 failed: the entry of v1 is
\* the merged record at the call's time, the stale entry of v2 is the old
\* one
C30_Witness ==
    /\ HydReturned
    /\ Len(list) = 2
    /\ list[1].VoiceID = "v1"
    /\ list[2].VoiceID = "v2"
    /\ "v1" \notin DOMAIN cache0.Voices
    /\ workers = <<"done", "failed">>
    /\ sync.writes = <<1, 0>>
    /\ cache.Voices["v1"].Voice.Name = "Detail"
    /\ cache.Voices["v1"].Voice.Category = "premade"
    /\ cache.Voices["v1"].UpdatedAt = now
    /\ "v2" \notin DOMAIN cache.Voices

(***************************************************************************)
(* Properties of mergeVoice                                                *)
(***************************************************************************)
\* the fields of elevenlabs.Voice
VoiceFields ==
    {"VoiceID", "Name", "Category", "Description", "Labels", "PreviewURL"}

\* the value x of field f is empty: "" or a map without labels
EmptyField(f, x) == IF f = "Labels" THEN DOMAIN x = {} ELSE x = ""

\* C31: each field of mergeVoice(base, details) is the field of details
\* when that is not empty and the field of base otherwise, so that no
\* field of base that is not empty comes out empty; merging the same
\* details into the result once more changes nothing
C31_MergeDetailWinsWhenNonEmpty ==
    qOp = "merge" =>
        \A r \in 1..Len(qRuns) :
            LET base == IF r = 1 THEN qVoices[1] ELSE qRuns[r - 1].out[1]
                details == qVoices[2]
                merged == qRuns[r].out[1]
            IN  /\ \A f \in VoiceFields :
                      /\ merged[f] = IF EmptyField(f, details[f])
                                     THEN base[f] ELSE details[f]
                      /\ ~EmptyField(f, base[f]) => ~EmptyField(f, merged[f])
                /\ merged = qRuns[1].out[1]

\* a detail entry with a name and labels and nothing else was merged twice
\* into a full list entry: the name and the labels are the detail's, the
\* rest is the list's
C31_Witness ==
    /\ qOp = "merge"
    /\ Len(qRuns) = 2
    /\ qVoices[1] = Voice("v1", "List", "List", "List", [use |-> "x"], "List")
    /\ qVoices[2] = Voice("", "Detail", "", "", [accent |-> "uk"], "")
    /\ qRuns[1].out[1] =
          Voice("v1", "Detail", "List", "List", [accent |-> "uk"], "List")
    /\ qRuns[2].out = qRuns[1].out

(***************************************************************************)
(* Determinism of the ranking                                              *)
(***************************************************************************)
\* C32: for the same voice list and the same query every evaluation of
\* rankVoicesByQuery computes the same score for each voice and returns the
\* same list in the same order, voices with two labels or more included
C32_RankingDeterministic ==
    qOp = "rank" =>
        \A r, t \in 1..Len(qRuns) :
            /\ qRuns[r].scores = qRuns[t].scores
            /\ qRuns[r].out = qRuns[t].out

(***************************************************************************)
(* Properties of the MiniMax voice resolution                              *)
(***************************************************************************)
\* a finished resolveMiniMaxVoice call on an input that names a voice
MiniMaxDone ==
    /\ resPc = "done"
    /\ provider = "minimax"
    /\ NamesAVoice

\* indices of the voices whose id or name equals s, case-insensitively
IdOrNameEquals(s) ==
    {i \in 1..Len(voices) :
        \/ ToLower(voices[i].VoiceID) = ToLower(s)
        \/ ToLower(voices[i].Name) = ToLower(s)}

\* the call resolved to the first voice of the set S of indices
UsingFirstOf(S) ==
    \E i \in S : (\A j \in S : i <= j) /\ UsingVoice(i)

\* the call returned the trimmed input as the id
ReturnedInput ==
    /\ voiceID = In
    /\ resErr = NoErr
    /\ notice = NoNotice

\* C40: on an input that is neither empty nor "?" once trimmed,
\* resolveMiniMaxVoice returns no error; it returns the trimmed input when
\* the list fetch fails and when no listed voice has the input as its id
\* or name or within its name, case-insensitively; a voice whose id or name
\* equals the input is taken before one whose name only contains it
C40_MiniMaxNeverFails ==
    MiniMaxDone =>
        /\ resErr = NoErr
        /\ forceID => ReturnedInput
        /\ (~forceID /\ ~listOK) => ReturnedInput
        /\ (~forceID /\ listOK) =>
              IF IdOrNameEquals(In) # {} THEN UsingFirstOf(IdOrNameEquals(In))
              ELSE IF NameContains(In) # {} THEN UsingFirstOf(NameContains(In))
              ELSE ReturnedInput

\* the input a is within the name of the first voice and is the name of
\* the second: the second voice is used
C40_Witness ==
    /\ MiniMaxDone
    /\ ~forceID
    /\ listOK
    /\ In = <<"a">>
    /\ Len(voices) = 2
    /\ voices[1].Name = <<"a", "b">>
    /\ voices[2].Name = <<"A">>
    /\ UsingVoice(2)

(***************************************************************************)
(* Further properties of the MiniMax event-stream decoder                  *)
(***************************************************************************)
\* indices of the items that carry a provider error: base_resp.status_code
\* is not 0
ErrorItems(its) == {i \in 1..Len(its) : its[i].code # 0}

\* the body's first item with a provider error comes before any item of
\* final status
ErrorComesFirst(its) ==
    /\ ErrorItems(its) # {}
    /\ \A f \in Finals(its) : First(ErrorItems(its)) <= f

\* C33: when an event of the body carries a provider error, the decoder
\* forwards no audio of that event or of a later one and never ends the
\* stream cleanly; once it has processed the event, the bytes of the
\* earlier events have all been delivered and the pipe is closed with the
\* provider error, which is what the consumer's read ends with
C33_ProviderErrorEndsStream ==
    LET flat == Dispatched(body, <<>>)
        want == AudioOf(Take(flat, First(ErrorItems(flat)) - 1))
    IN  ErrorComesFirst(flat) =>
            /\ IsPrefix(got \o pend, want)
            /\ decPc \in {"return", "closed"} => decErr # "nil"
            /\ decErr = "provider" =>
                  /\ decPc \in {"return", "closed"}
                  /\ got = want
                  /\ pend = <<>>
            /\ (decPc = "closed" /\ decErr = "provider") =>
                  /\ pwErr = "provider"
                  /\ conEnd \in {"none", "provider"}

\* Hello was delivered, then an event with the error 1004 and audio of its
\* own came: the consumer has Hello and its read has ended with the error
C33_Witness ==
    /\ body = << Line("data:", Obj(Item(HelloHex, 1, 0))), Line("", NoPayload),
                 Line("data:", Obj(Item(BangHex, 1, 1004))) >>
    /\ bodyEOF
    /\ decPc = "closed"
    /\ decErr = "provider"
    /\ got = <<72, 101, 108, 108, 111>>
    /\ conEnd = "provider"

\* the items of the body in the order the lines that carry them appear
RECURSIVE Appearing(_)
Appearing(lines) ==
    IF lines = <<>> THEN <<>>
    ELSE Head(lines).payload.items \o Appearing(Tail(lines))

\* C34: the decoder forwards the fragments in the order their events appear
\* in the body, data: lines and bare JSON lines mixed included, and has
\* forwarded every fragment of the events it has read when it goes to read
\* the body again with no data: line buffered
C34_ForwardedInBodyOrder ==
    LET want == AudioOf(Appearing(body))
    IN  /\ IsPrefix(got \o pend, want)
        /\ (decPc = "read" /\ dataLines = <<>>) => got = want

\* no event of lines is made of two data: lines with a payload each, n
\* being the number of such lines of the event that is open
RECURSIVE OnePayloadEach(_, _)
OnePayloadEach(lines, n) ==
    IF lines = <<>> THEN TRUE
    ELSE LET l == Head(lines)
         IN  IF l.head = "" THEN OnePayloadEach(Tail(lines), 0)
             ELSE IF l.head = "data:" /\ l.payload.shape # "empty"
             THEN n = 0 /\ OnePayloadEach(Tail(lines), 1)
             ELSE OnePayloadEach(Tail(lines), n)

\* the decoder has read the body to its end and met nothing that stops it
\* early: no final item, no provider error, no payload or audio it rejects
TruncatedBody ==
    LET flat == Dispatched(body, <<>>)
    IN  /\ bodyEOF
        /\ Finals(flat) = {}
        /\ ErrorItems(flat) = {}
        /\ \A i \in 1..Len(flat) :
              flat[i].audio \in {<<>>, HelloHex, BangHex}
        /\ \A i \in 1..Len(body) : body[i].payload.shape # "bad"
        /\ OnePayloadEach(body, 0)

\* the decoder ended by itself: no cancellation, no transport error, no
\* closed pipe
EndedByItself ==
    /\ decPc \in {"return", "closed"}
    /\ decErr \notin {"canceled", "transport", "closedPipe"}

\* C39: when the body ends before an event of final status, the decoder
\* processes the event it has buffered without its blank line, then returns
\* without error and the pipe is closed cleanly: the consumer has every
\* fragment, that of the trailing event included, and its stream ends with
\* end-of-stream as after a final event
C39_TruncatedStreamEndsCleanly ==
    (TruncatedBody /\ EndedByItself) =>
        /\ decErr = "nil"
        /\ ~streamDone
        /\ got = AudioOf(Dispatched(body, <<>>))
        /\ pend = <<>>
        /\ decPc = "closed" =>
              /\ pwErr = "nil"
              /\ conEnd \in {"none", "eof"}

\* the body ended after a data: line with Hello and no blank line: the
\* consumer has Hello and has seen the end of the stream
C39_Witness ==
    /\ body = << Line(":", NoPayload),
                 Line("data:", Obj(Item(HelloHex, 1, 0))) >>
    /\ bodyEOF
    /\ ~streamDone
    /\ decPc = "closed"
    /\ decErr = "nil"
    /\ got = <<72, 101, 108, 108, 111>>
    /\ conEnd = "eof"

\* the decoder's state when StreamTTS starts it
StartCtl ==
    [pc |-> "read", dataLines |-> <<>>, items |-> <<>>, idx |-> 0,
     site |-> "none", done |-> FALSE, err |-> "nil", pend |-> <<>>]

\* the decoder run from c, with a consumer that takes every byte, until it
\* reads the body again or returns; out is what the consumer has
RECURSIVE Settle(_, _, _)
Settle(c, out, eof) ==
    CASE c.pc = "handle" ->
            Settle(handleItem(c, c.items[c.idx], eof), out, eof)
      [] c.pc = "write" ->
            Settle(AfterItem([c EXCEPT !.pend = <<>>], eof), out \o c.pend,
                   eof)
      [] c.pc = "tail" ->
            Settle(IF Len(c.dataLines) > 0
                   THEN handleMiniMaxStreamPayload(c, JoinData(c.dataLines),
                                                   "tail", TRUE)
                   ELSE Returned(c, "nil", FALSE), out, TRUE)
      [] OTHER -> [c |-> c, out |-> out]

\* the decoder run on the lines, one after the other
RECURSIVE RunLines(_, _, _)
RunLines(lines, c, out) ==
    IF lines = <<>> \/ c.pc # "read" THEN [c |-> c, out |-> out]
    ELSE LET r == Settle(readLine(c, Head(lines), FALSE), out, FALSE)
         IN  RunLines(Tail(lines), r.c, r.out)

\* what the decoder makes of a body: the bytes delivered, the lines still
\* buffered and how it ended, if it did; eof tells that the body has ended
Outcome(lines, eof) ==
    LET r == RunLines(lines, StartCtl, <<>>)
        e == IF eof /\ r.c.pc = "read"
             THEN Settle([r.c EXCEPT !.pc = "tail"], r.out, TRUE)
             ELSE r
    IN  [out |-> e.out, pc |-> e.c.pc, err |-> e.c.err, done |-> e.c.done,
         dataLines |-> e.c.dataLines]

\* a comment or metadata line of the event stream
IsMetaLine(l) == l.head \in {":", "event:", "id:", "retry:"}

\* the lines without the comment and metadata lines
WithoutMeta(lines) == SelectSeq(lines, LAMBDA l : ~IsMetaLine(l))

\* C35: the lines that start with ":", "event:", "id:" or "retry:" have no
\* effect: the body read so far and the same body without these lines give
\* the same delivered bytes, the same buffered lines and the same end, and
\* what the decoder and the consumer have done is what the body without
\* them gives
C35_MetaLinesIgnored ==
    LET full == Outcome(body, bodyEOF)
        bare == Outcome(WithoutMeta(body), bodyEOF)
    IN  /\ full = bare
        /\ IsPrefix(got \o pend, bare.out)
        /\ EndedByItself =>
              /\ bare.pc = "return"
              /\ got = bare.out
              /\ decErr = bare.err
              /\ streamDone = bare.done
        /\ (decPc = "closed" /\ EndedByItself) =>
              /\ pwErr = bare.err
              /\ conEnd \in {"none", IF bare.err = "nil" THEN "eof"
                                      ELSE bare.err}

\* a comment between two events and a retry: line before the final one:
\* the consumer has Hello and the clean end of the stream, as without them
C35_Witness ==
    /\ body = << Line("{", Obj(Item(BangHex, 1, 0))), Line(":", NoPayload),
                 Line("{", Obj(Item(<<>>, StatusFinal, 0))) >>
    /\ decPc = "closed"
    /\ streamDone
    /\ got = <<33>>
    /\ conEnd = "eof"
    /\ Outcome(WithoutMeta(body), bodyEOF).out = <<33>>

\* C36: once the caller's context is cancelled or the consumer has closed
\* the stream, the goroutine of StreamTTS eventually returns and closes the
\* response body, wherever it was: reading the body, or writing a fragment
\* to a pipe nobody reads
C36_CancelEndsDecoder == (ctxDone \/ prClosed) ~> (decPc = "closed" /\ bodyClosed)

\* the goroutines hydrateVoices has started that have not finished
Unfinished == {i \in 1..Len(workers) : workers[i] \notin {"none", "failed", "done"}}

\* C38: when every GetVoice call returns, a call of hydrateVoices ends for
\* every length of the list, lists longer than the four slots of the
\* semaphore included: it returns, unless the Go runtime has stopped the
\* process for the unlocked map read of the loop; and when it has returned
\* every goroutine it started has finished and none holds mu, so that none
\* writes results or the cache afterwards
C38_HydrateEndsWithWorkersDone ==
    /\ [](HydReturned => (Unfinished = {} /\ sync.holder = 0))
    /\ (cmdPc = "call") ~> (HydReturned \/ cmdPc = "crashed")

\* a list of five voices that all need a fetch, one more than the pool is
\* wide, has returned with every goroutine finished and five entries written
C38_Witness ==
    /\ HydReturned
    /\ Len(list) = voiceFetchConcurrency + 1
    /\ \A i \in 1..Len(list) : list[i].VoiceID = "v2"
    /\ \A i \in 1..Len(list) : workers[i] = "done"
    /\ sync.writes = [i \in 1..Len(list) |-> 1]

\* the errors of the option checks of the speak command
ValidationErrors ==
    {"speed", "rate", "stability", "similarity", "style", "boost", "seed",
     "normalize", "lang", "format", "volume", "pitch", "emotion"}

\* C37: when the speak command returns the error of an option check, it has
\* made no voice-list request, has read no text file and no stdin, and has
\* made no synthesis request
C37_ValidationBeforeIO ==
    speakErr \in ValidationErrors =>
        /\ listCalls = 0
        /\ speakIO.reads = 0
        /\ speakIO.requests = 0

====
